---- MODULE Spec2Model ----
(***************************************************************************)
(* Model of the PDF RAG pipeline of saadurrehman/pdf-rag-code.             *)
(*                                                                         *)
(*   - the ingestion worker (server/worker.js): a BullMQ worker that takes *)
(*     jobs from 'file-upload-queue', loads the PDF, clears the Qdrant     *)
(*     collection by scroll + delete, and inserts the new documents;       *)
(*   - the chat endpoint (server/index.js, shipped inside start.sh):       *)
(*     GET /api/chat, with retrieval, the event stream and the             *)
(*     classification of language-model errors.                            *)
(*                                                                         *)
(* Every await of the source is a step boundary: an action is the code     *)
(* that runs from one await's resumption up to the next await.             *)
(***************************************************************************)
EXTENDS Integers, Sequences, FiniteSets, TLC

(***************************************************************************)
(* Bounds of the model.                                                    *)
(***************************************************************************)
MaxJobs == 2          \* ingestion jobs in the queue
MaxPages == 2         \* documents (pages with text) one PDF loads into
MaxPrior == 3         \* records in the collection before the first job
ScrollLimit == 2      \* page size of one scroll call (the source uses 100)
MaxFragments == 2     \* fragments one model stream produces
MaxOthers == 1        \* chat requests in flight next to the observed one

\* a job stands for the document it ingests; document 0 is the document
\* whose points are in the collection before the first job
Jobs == 1..MaxJobs

\* The id of the point made from page p of the document of job j.  The
\* source leaves the ids to the vector store library (one new id per
\* document); here they follow the prior points, in job and page order.
PointId(j, p) == MaxPrior + (j - 1) * MaxPages + p

(***************************************************************************)
(* Program constants.                                                      *)
(***************************************************************************)
Concurrency == 100    \* worker.js: concurrency of the BullMQ worker
TopK == 2             \* index.js: asRetriever({ k: 2 })

NoOffset == 0         \* offset === undefined: the first scroll call
NullOffset == -1      \* next_page_offset === null: cursor exhausted

VARIABLES
  collExists,   \* the Qdrant collection 'langchainjs-testing' exists
  index,        \* points of the collection: records [id, doc, page]
  queue,        \* waiting jobs of 'file-upload-queue', oldest first
  pc,           \* pc[j]: position of the processor function of job j
  docs,         \* docs[j]: number of documents loader.load() returned
  clr,          \* clr[j]: the state of job j's clearQdrantCollection call
  deleteCalls,  \* deleteCalls[j]: delete requests job j has issued
  overlap,      \* overlap[j]: another job was in flight during j's run
  lastDone,     \* the job whose run completed successfully last (0: none)
  OPENAI_API_KEY, \* TRUE iff process.env.OPENAI_API_KEY is a non-empty string
  cpc,          \* position of the /api/chat handler
  userQuery,    \* req.query.message
  result,       \* the documents the retriever returned
  qdrantStatus, \* 'not_attempted', 'success' or 'failed'
  SYSTEM_PROMPT,\* the system instruction of the request
  res,          \* the HTTP response of the request
  llm,          \* the call to the language model and its outcome
  searchCalls,  \* similarity searches started for the request
  fragments,    \* fragments of the model stream consumed so far
  clientClosed, \* the client of the request has closed its connection
  earlier,      \* an earlier chat request has been handled
  others,       \* others[o]: position of another chat request in flight
  enqueuer,     \* index.js: the variable queue: 'unset', 'real' or 'mock'
  brokerUp,     \* the Redis server of the queue is reachable
  AWS_KEYS,     \* AWS_ACCESS_KEY_ID and AWS_SECRET_ACCESS_KEY are set
  AWS_S3_BUCKET,\* AWS_S3_BUCKET or S3_BUCKET is set
  up,           \* the upload request in flight and the handler's locals
  ures,         \* the HTTP response of the upload request
  uploads,      \* upload requests received so far
  s3Objects,    \* the uploads whose bytes object storage holds
  tempFiles,    \* files of the temp directory: records [path, bytes]
  s3Instance,   \* s3Client.js: the S3 client has been created
  lib,          \* the last direct call of uploadFile or readFileFromS3
  REDIS_URL,    \* process.env.REDIS_URL
  serverQueue,  \* index.js: name and connection given to new Queue
  workerQueue,  \* worker.js: name and connection given to new Worker
  QDRANT_URL,   \* process.env.QDRANT_URL
  workerStore,  \* worker.js: the collections the worker clears and fills
  messages,     \* chat.tsx: the messages of the chat window
  send,         \* chat.tsx: the locals of handleSendChatMessage
  served,       \* the events the server wrote for the send
  wire          \* the part of the response body not yet read

ingestVars == <<collExists, index, queue, pc, docs, clr, deleteCalls,
                overlap, lastDone>>

chatVars == <<OPENAI_API_KEY, cpc, userQuery, result, qdrantStatus,
              SYSTEM_PROMPT, res, llm, searchCalls, fragments, clientClosed,
              earlier, others>>

redisVars == <<REDIS_URL, serverQueue, workerQueue>>

qdrantVars == <<QDRANT_URL, workerStore>>

clientVars == <<messages, send, served, wire>>

s3Vars == <<s3Instance, lib>>

uploadVars == <<enqueuer, brokerUp, AWS_KEYS, AWS_S3_BUCKET, up, ures,
                uploads, s3Objects, tempFiles, s3Vars, redisVars,
                qdrantVars, clientVars>>

\* the state of the worker process and of the collection
workerVars == <<collExists, index, pc, docs, clr, deleteCalls, overlap,
                lastDone>>

vars == <<ingestVars, chatVars, uploadVars>>

----------------------------------------------------------------------------
(***************************************************************************)
(* Helpers on sets of points.                                              *)
(***************************************************************************)
Min(S) == CHOOSE x \in S : \A y \in S : x <= y

RECURSIVE FirstN(_, _)
FirstN(S, n) ==
  IF n = 0 \/ S = {} THEN {}
  ELSE {Min(S)} \cup FirstN(S \ {Min(S)}, n - 1)

PointIds(points) == {p.id : p \in points}
DocsOf(points) == {p.doc : p \in points}
PointsOf(points, d) == {p \in points : p.doc = d}

(***************************************************************************)
(* POST /collections/<c>/points/scroll of the vector database: the points  *)
(* are enumerated in id order; a call returns at most `limit` ids starting *)
(* at the offset, and the id the next call has to start from (or null).    *)
(***************************************************************************)
ScrollFrom(points, offset) ==
  IF offset = NoOffset THEN PointIds(points)
  ELSE {i \in PointIds(points) : i >= offset}

ScrollPage(points, offset) == FirstN(ScrollFrom(points, offset), ScrollLimit)

ScrollNext(points, offset) ==
  LET rest == ScrollFrom(points, offset) \ ScrollPage(points, offset)
  IN IF rest = {} THEN NullOffset ELSE Min(rest)

(***************************************************************************)
(* The catch block of clearQdrantCollection: an error whose message        *)
(* includes '404' or 'Not found' is taken for "the collection does not     *)
(* exist yet" and swallowed.  The message of a failed call is              *)
(* `Qdrant <call> failed: <status> <body>`, so the status and the body     *)
(* text both take part; a rejected fetch (network) has neither.            *)
(***************************************************************************)
Bodies == {"plain", "has404", "hasNotFound"}

MessageIncludes404(status, body) == status = 404 \/ body = "has404"
MessageIncludesNotFound(status, body) == body = "hasNotFound"

ClearSwallows(status, body) ==
  MessageIncludes404(status, body) \/ MessageIncludesNotFound(status, body)

(***************************************************************************)
(* The responses a call to the vector database can get.  A missing         *)
(* collection answers 404 "Not found"; an existing one answers 200, or an  *)
(* error status with any body text; the connection can also fail.          *)
(***************************************************************************)
FailureStatuses == {500}

Responses ==
  {[status |-> s, body |-> b] : s \in FailureStatuses \cup {404}, b \in Bodies}

ErrorResponses ==
  IF collExists
  THEN {r \in Responses : r.status \in FailureStatuses}
  ELSE {[status |-> 404, body |-> "hasNotFound"]}

----------------------------------------------------------------------------
(***************************************************************************)
(* The ingestion worker.                                                   *)
(***************************************************************************)
Active(j) == pc[j] \notin {"waiting", "done", "failed"}
ActiveJobs == {j \in Jobs : Active(j)}

ClrIdle == [st |-> "idle", offset |-> NoOffset, allIds |-> {}]

\* clearQdrantCollection returns or throws: its locals are gone
Settled(st) == [st |-> st, offset |-> NoOffset, allIds |-> {}]
\* (variant) clearQdrantCollection() called without await: the processor
\* goes on while the clear is still running
AfterLoadPcNoAwait == "connecting"

\* the statement the processor runs after `await loader.load()`:
\* `await clearQdrantCollection()`, the processor waits for its result
AfterLoadPc == "clearing"

\* the processor function resumes when the clear it awaits settles
AwaitClear(j, st) ==
  IF pc[j] = "clearing"
  THEN IF st = "returned" THEN "connecting"
       ELSE IF st = "raised" THEN "failed"
       ELSE "clearing"
  ELSE pc[j]

\* (variant) a run that raised is started again from the load
GotoRetry(j, p) ==
  /\ pc' = [pc EXCEPT ![j] = IF p = "failed" THEN "loading" ELSE p]
  /\ docs' = [docs EXCEPT ![j] = IF p = "failed" THEN 0 ELSE @]

\* the processor function of job j moves to position p; a run that ends
\* in failure drops the documents it had loaded
Goto(j, p) ==
  /\ pc' = [pc EXCEPT ![j] = p]
  /\ docs' = [docs EXCEPT ![j] = IF p = "failed" THEN 0 ELSE @]

\* the worker takes the oldest waiting job; JSON.parse(job.data), then
\* new PDFLoader(data.path) and loader.load() is in flight
Start(j) ==
  /\ queue # <<>> /\ Head(queue) = j
  /\ Cardinality(ActiveJobs) < Concurrency
  /\ queue' = Tail(queue)
  /\ pc' = [pc EXCEPT ![j] = "loading"]
  /\ overlap' = [k \in Jobs |->
                  IF k = j THEN ActiveJobs # {}
                  ELSE IF Active(k) THEN TRUE ELSE overlap[k]]
  /\ UNCHANGED <<collExists, index, docs, clr, deleteCalls, lastDone>>
  /\ UNCHANGED <<chatVars, uploadVars>>

\* loader.load() resolves with n documents; clearQdrantCollection() is
\* called and its first scroll request is in flight
LoadOk(j, n) ==
  /\ pc[j] = "loading"
  /\ docs' = [docs EXCEPT ![j] = n]
  /\ clr' = [clr EXCEPT ![j] = [ClrIdle EXCEPT !.st = "scrolling"]]
  /\ pc' = [pc EXCEPT ![j] = AfterLoadPc]
  /\ UNCHANGED <<collExists, index, queue, overlap, lastDone, deleteCalls>>
  /\ UNCHANGED <<chatVars, uploadVars>>

\* the worker takes the oldest waiting job and JSON.parse(job.data)
\* throws (a job of another producer): the job fails
StartFail(j) ==
  /\ queue # <<>> /\ Head(queue) = j
  /\ Cardinality(ActiveJobs) < Concurrency
  /\ queue' = Tail(queue)
  /\ Goto(j, "failed")
  /\ UNCHANGED <<collExists, index, clr, deleteCalls, overlap, lastDone>>
  /\ UNCHANGED <<chatVars, uploadVars>>

\* (variant) the collection is cleared before the file is loaded
LoadFailAfterClear(j) ==
  /\ pc[j] = "loading"
  /\ Goto(j, "failed")
  /\ index' = {}
  /\ UNCHANGED <<collExists, queue, clr, overlap, lastDone, deleteCalls>>
  /\ UNCHANGED <<chatVars, uploadVars>>

\* loader.load() rejects (unreadable file, not a PDF): the job fails
LoadFail(j) ==
  /\ pc[j] = "loading"
  /\ Goto(j, "failed")
  /\ UNCHANGED <<collExists, index, queue, clr, overlap, lastDone, deleteCalls>>
  /\ UNCHANGED <<chatVars, uploadVars>>

\* clearQdrantCollection after one scroll response: the next scroll call
\* while the cursor is not exhausted; then nothing to delete (return), or
\* one delete request for all the ids
\* (variant) the delete request is sent even when no id was enumerated
AfterScrollAlwaysDeletes(c) ==
  IF c.offset # NullOffset THEN c
  ELSE [c EXCEPT !.st = "deleting"]

\* (variant) the cursor is not followed: the ids of the first page only
AfterScrollFirstPageOnly(c) ==
  IF c.allIds = {} THEN Settled("returned")
  ELSE [c EXCEPT !.st = "deleting"]

\* (variant) the loop tests `offset !== undefined` only: a null cursor
\* does not end it
AfterScrollIgnoresNull(c) == c

AfterScroll(c) ==
  IF c.offset # NullOffset THEN c
  ELSE IF c.allIds = {} THEN Settled("returned")
  ELSE [c EXCEPT !.st = "deleting"]

\* a scroll request answers 200
ScrollOk(j) ==
  /\ clr[j].st = "scrolling"
  /\ collExists
  /\ LET c == AfterScroll(
               [clr[j] EXCEPT
                  !.allIds = @ \cup ScrollPage(index, clr[j].offset),
                  !.offset = ScrollNext(index, clr[j].offset)])
     IN /\ clr' = [clr EXCEPT ![j] = c]
        /\ Goto(j, AwaitClear(j, c.st))
        /\ deleteCalls' = [deleteCalls EXCEPT ![j] =
                             IF c.st = "deleting" THEN @ + 1 ELSE @]
  /\ UNCHANGED <<collExists, index, queue, overlap, lastDone>>
  /\ UNCHANGED <<chatVars, uploadVars>>

\* the outcome of clearQdrantCollection when a request answered !ok
ClearCatch(r) == IF ClearSwallows(r.status, r.body) THEN "returned" ELSE "raised"

\* a scroll or delete request answers with an error status
ClearError(j, r) ==
  /\ r \in ErrorResponses
  /\ clr' = [clr EXCEPT ![j] = Settled(ClearCatch(r))]
  /\ Goto(j, AwaitClear(j, ClearCatch(r)))
  /\ UNCHANGED <<collExists, index, queue, overlap, lastDone, deleteCalls>>
  /\ UNCHANGED <<chatVars, uploadVars>>

ScrollError(j, r) ==
  /\ clr[j].st = "scrolling"
  /\ ClearError(j, r)

DeleteError(j, r) ==
  /\ clr[j].st = "deleting"
  /\ ClearError(j, r)

\* the collection does not exist: the scroll request answers 404, which
\* the catch block of clearQdrantCollection swallows
NotFound == [status |-> 404, body |-> "hasNotFound"]

ScrollNotFound(j) ==
  /\ ~collExists
  /\ clr[j].st = "scrolling"
  /\ ClearError(j, NotFound)

\* the delete request answers 200: the enumerated points are gone
DeleteOk(j) ==
  /\ clr[j].st = "deleting"
  /\ collExists
  /\ index' = {p \in index : p.id \notin clr[j].allIds}
  /\ clr' = [clr EXCEPT ![j] = Settled("returned")]
  /\ Goto(j, AwaitClear(j, "returned"))
  /\ UNCHANGED <<collExists, queue, overlap, lastDone, deleteCalls>>
  /\ UNCHANGED <<chatVars, uploadVars>>

\* fetch itself rejects (connection refused): the message has no '404'
ClearNetworkError(j) ==
  /\ clr[j].st \in {"scrolling", "deleting"}
  /\ clr' = [clr EXCEPT ![j] = Settled("raised")]
  /\ Goto(j, AwaitClear(j, "raised"))
  /\ UNCHANGED <<collExists, index, queue, overlap, lastDone, deleteCalls>>
  /\ UNCHANGED <<chatVars, uploadVars>>

\* QdrantVectorStore.fromExistingCollection resolves (it creates the
\* collection when it is missing); addDocuments(docs) starts embedding
ConnectOk(j) ==
  /\ pc[j] = "connecting"
  /\ collExists' = TRUE
  /\ Goto(j, "embedding")
  /\ UNCHANGED <<index, queue, clr, overlap, lastDone, deleteCalls>>
  /\ UNCHANGED <<chatVars, uploadVars>>

\* the embedding call resolves; the upsert request is in flight
EmbedOk(j) ==
  /\ pc[j] = "embedding"
  /\ Goto(j, "inserting")
  /\ UNCHANGED <<collExists, index, queue, clr, overlap, lastDone, deleteCalls>>
  /\ UNCHANGED <<chatVars, uploadVars>>

\* fromExistingCollection or the embedding call rejects: the job fails
EmbedFail(j) ==
  /\ pc[j] \in {"connecting", "embedding"}
  /\ Goto(j, "failed")
  /\ UNCHANGED <<collExists, index, queue, clr, overlap, lastDone, deleteCalls>>
  /\ UNCHANGED <<chatVars, uploadVars>>

\* the points addDocuments(docs) adds for job j: one per document
NewPoints(j) ==
  {[id |-> PointId(j, p), doc |-> j, page |-> p] : p \in 1..docs[j]}

\* the upsert resolves: the new points are in the collection
InsertOk(j) ==
  /\ pc[j] = "inserting"
  /\ collExists
  /\ index' = index \cup NewPoints(j)
  /\ Goto(j, "done")
  /\ lastDone' = j
  /\ UNCHANGED <<collExists, queue, clr, overlap, deleteCalls>>
  /\ UNCHANGED <<chatVars, uploadVars>>

\* (variant) the upsert rejects after the points were written
InsertFailAfterWrite(j) ==
  /\ pc[j] = "inserting"
  /\ index' = index \cup NewPoints(j)
  /\ Goto(j, "failed")
  /\ UNCHANGED <<collExists, queue, clr, overlap, lastDone, deleteCalls>>
  /\ UNCHANGED <<chatVars, uploadVars>>

\* the upsert rejects: the job fails, nothing is inserted
InsertFail(j) ==
  /\ pc[j] = "inserting"
  /\ Goto(j, "failed")
  /\ UNCHANGED <<collExists, index, queue, clr, overlap, lastDone, deleteCalls>>
  /\ UNCHANGED <<chatVars, uploadVars>>

----------------------------------------------------------------------------
(***************************************************************************)
(* The HTTP response object of a chat request.                             *)
(***************************************************************************)
NoResponse ==
  [kind |-> "none", status |-> 0, error |-> "", events |-> <<>>,
   ended |-> FALSE, lateWrites |-> 0, threw |-> FALSE]

\* res.status(code).json(body): sends the whole response; it throws when
\* the headers have already been sent
ResJson(r, code, error) ==
  IF r.kind # "none" THEN [r EXCEPT !.threw = TRUE]
  ELSE [r EXCEPT !.kind = "json", !.status = code, !.error = error,
                 !.ended = TRUE]

\* res.setHeader('Content-Type', 'text/event-stream') and the first write
ResWrite(r, ev) ==
  IF r.ended THEN [r EXCEPT !.lateWrites = @ + 1]
  ELSE [r EXCEPT !.kind = "stream", !.status = 200,
                 !.events = Append(@, ev)]

\* (variant) the response is never ended
ResEndForgotten(r) == r

\* res.end()
ResEnd(r) == [r EXCEPT !.ended = TRUE]

Write(ev) == [op |-> "write", ev |-> ev]
End == [op |-> "end", ev |-> [type |-> "none"]]

\* the res.write / res.end calls of a block of the handler, in order
RECURSIVE ResApply(_, _)
ResApply(r, ops) ==
  IF ops = <<>> THEN r
  ELSE ResApply(IF Head(ops).op = "write" THEN ResWrite(r, Head(ops).ev)
                ELSE ResEnd(r),
                Tail(ops))

(***************************************************************************)
(* The events of the stream.                                               *)
(***************************************************************************)
MetadataEvent(d, st) == [type |-> "metadata", docs |-> d, qdrantStatus |-> st]
ContentEvent(c) == [type |-> "content", content |-> c]
DoneEvent == [type |-> "done"]
ErrorEvent(st, e, retry) ==
  [type |-> "error", status |-> st, error |-> e, hint |-> TRUE,
   retryAfter |-> retry]

(***************************************************************************)
(* An error thrown by the model call.  A message is the set of the         *)
(* substrings the handler looks for that it contains; Absent stands for a  *)
(* missing or empty message.  A status of 0 stands for undefined.          *)
(***************************************************************************)
Tokens == {"401", "Incorrect API key", "Invalid API key", "invalid_api_key",
           "429", "rate limit", "Rate limit", "quota", "insufficient_quota",
           "model", "not found", "timeout", "ETIMEDOUT", "ECONNREFUSED"}

Absent == {"<absent>"}

\* String.prototype.includes: 'insufficient_quota' contains 'quota'
Includes(msg, t) ==
  \/ t \in msg
  \/ t = "quota" /\ "insufficient_quota" \in msg

\* const status = openaiError?.status || openaiError?.response?.status || 500
ErrorStatus(err) ==
  IF err.status # 0 THEN err.status
  ELSE IF err.response # 0 THEN err.response
  ELSE 500

\* const errorMessage = openaiError?.message || openaiError?.error?.message
\*   || openaiError?.response?.data?.error?.message || 'Unknown OpenAI error'
ErrorMessage(err) ==
  IF err.message # Absent THEN err.message
  ELSE IF err.inner # Absent THEN err.inner
  ELSE IF err.data # Absent THEN err.data
  ELSE {}

IsInvalidKey(status, msg) ==
  \/ status = 401
  \/ Includes(msg, "401")
  \/ Includes(msg, "Incorrect API key")
  \/ Includes(msg, "Invalid API key")
  \/ Includes(msg, "invalid_api_key")

IsRateLimit(status, msg) ==
  \/ status = 429
  \/ Includes(msg, "429")
  \/ Includes(msg, "rate limit")
  \/ Includes(msg, "Rate limit")

IsQuota(status, msg) ==
  \/ status = 403
  \/ Includes(msg, "quota")
  \/ Includes(msg, "insufficient_quota")

IsModel(status, msg) ==
  \/ status = 404
  \/ Includes(msg, "model")
  \/ Includes(msg, "not found")

IsNetwork(status, msg) ==
  \/ Includes(msg, "timeout")
  \/ Includes(msg, "ETIMEDOUT")
  \/ Includes(msg, "ECONNREFUSED")

InvalidKeyEvent == ErrorEvent(401, "Invalid OpenAI API key", 0)
RateLimitEvent == ErrorEvent(429, "OpenAI API rate limit exceeded", 60)
QuotaEvent == ErrorEvent(403, "OpenAI API quota exceeded", 0)

\* (variant) the model branch reports the event of the quota branch
ModelEventAsQuota == ErrorEvent(403, "OpenAI API quota exceeded", 0)

ModelEvent == ErrorEvent(404, "OpenAI model not available", 0)
NetworkEvent == ErrorEvent(503, "OpenAI API connection failed", 0)
GenericEvent(status) ==
  ErrorEvent(IF status < 600 THEN status ELSE 500, "OpenAI API error", 0)

\* the branch of the catch (openaiError) block an error takes
ErrorClass(err) ==
  LET status == ErrorStatus(err)
      msg == ErrorMessage(err)
  IN IF IsInvalidKey(status, msg) THEN "invalid_key"
     ELSE IF IsRateLimit(status, msg) THEN "rate_limit"
     ELSE IF IsQuota(status, msg) THEN "quota"
     ELSE IF IsModel(status, msg) THEN "model"
     ELSE IF IsNetwork(status, msg) THEN "network"
     ELSE "generic"

\* the event the catch (openaiError) block reports for an error
ClassifyOpenAIError(err) ==
  LET status == ErrorStatus(err)
      msg == ErrorMessage(err)
  IN IF IsInvalidKey(status, msg) THEN InvalidKeyEvent
     ELSE IF IsRateLimit(status, msg) THEN RateLimitEvent
     ELSE IF IsQuota(status, msg) THEN QuotaEvent
     ELSE IF IsModel(status, msg) THEN ModelEvent
     ELSE IF IsNetwork(status, msg) THEN NetworkEvent
     ELSE GenericEvent(status)
\* (variant) a branch without its return: the code falls through to the
\* generic branch, which writes and ends again
CatchOpsNoReturn(err) ==
  LET status == ErrorStatus(err)
      ev == ClassifyOpenAIError(err)
  IN IF ev = GenericEvent(status) THEN <<Write(ev), End>>
     ELSE <<Write(ev), End, Write(GenericEvent(status)), End>>

\* the writes of the catch (openaiError) block: every branch writes its
\* event, ends the response and returns
CatchOps(err) == <<Write(ClassifyOpenAIError(err)), End>>
\* (variant) the stream is ended without the completion signal
DoneOpsNoSignal == <<End>>

\* the writes after the for-await loop of a stream that ended normally
DoneOps == <<Write(DoneEvent), End>>

(***************************************************************************)
(* The chat handler, GET /api/chat.                                        *)
(***************************************************************************)
Queries == {"missing", "empty", "array", "object", "text"}

\* !userQuery
Falsy(q) == q \in {"missing", "empty"}
\* typeof userQuery
TypeOf(q) ==
  IF q = "missing" THEN "undefined"
  ELSE IF q \in {"array", "object"} THEN "object"
  ELSE "string"
\* (variant) the message check without the typeof test
ValidateNoTypeCheck(q, key) ==
  IF Falsy(q) THEN "bad_message"
  ELSE IF ~key THEN "no_key"
  ELSE "ok"

\* (variant) the API key is checked before the message
ValidateKeyFirst(q, key) ==
  IF ~key THEN "no_key"
  ELSE IF Falsy(q) \/ TypeOf(q) # "string" THEN "bad_message"
  ELSE "ok"

\* the two checks at the head of the handler, in their order
Validate(q, key) ==
  IF Falsy(q) \/ TypeOf(q) # "string" THEN "bad_message"
  ELSE IF ~key THEN "no_key"
  ELSE "ok"

NoCall == [state |-> "none", messages |-> <<>>, written |-> 0,
           err |-> [status |-> 0, response |-> 0, message |-> Absent,
                    inner |-> Absent, data |-> Absent]]

\* (variant) the messages of the model call are kept for the next request
RequestLocalsKeepMessages ==
  /\ userQuery' = "none"
  /\ result' = {}
  /\ qdrantStatus' = "not_attempted"
  /\ SYSTEM_PROMPT' = [kind |-> "unset", context |-> {}]
  /\ res' = NoResponse
  /\ llm' = [NoCall EXCEPT !.messages = llm.messages]
  /\ searchCalls' = 0
  /\ fragments' = <<>>
  /\ clientClosed' = FALSE

RequestLocals ==
  /\ userQuery' = "none"
  /\ result' = {}
  /\ qdrantStatus' = "not_attempted"
  /\ SYSTEM_PROMPT' = [kind |-> "unset", context |-> {}]
  /\ res' = NoResponse
  /\ llm' = NoCall
  /\ searchCalls' = 0
  /\ fragments' = <<>>
  /\ clientClosed' = FALSE

\* a request arrives: validation of the message and of the API key; a
\* valid request starts the retrieval (fromExistingCollection is awaited)
ChatRequest(q) ==
  /\ cpc = "idle"
  /\ userQuery' = q
  /\ LET v == Validate(q, OPENAI_API_KEY)
     IN /\ res' = IF v = "bad_message"
                  THEN ResJson(res, 400, "Message query parameter is required")
                  ELSE IF v = "no_key"
                  THEN ResJson(res, 500, "OpenAI API key is not configured")
                  ELSE res
        /\ cpc' = IF v = "ok" THEN "retrieving" ELSE "finished"
        /\ searchCalls' = IF v = "ok" THEN searchCalls + 1 ELSE searchCalls
  /\ UNCHANGED <<OPENAI_API_KEY, result, qdrantStatus, SYSTEM_PROMPT, llm,
                 fragments>>
  /\ UNCHANGED <<clientClosed, earlier, others>>
  /\ UNCHANGED <<ingestVars, uploadVars>>

\* ret.invoke(userQuery) with k = 2: the k nearest points of the
\* collection, whichever they are for the question
SearchResults(points) ==
  {S \in SUBSET points :
     Cardinality(S) = IF Cardinality(points) < TopK
                      THEN Cardinality(points) ELSE TopK}

\* (variant) the context prompt needs more than one document
SystemPromptMoreThanOne(d) ==
  IF Cardinality(d) > 1 THEN [kind |-> "context", context |-> d]
  ELSE [kind |-> "generic", context |-> {}]

\* result.length > 0 ? <context prompt with JSON.stringify(result)>
\*                   : <generic prompt>
SystemPrompt(d) ==
  IF Cardinality(d) > 0 THEN [kind |-> "context", context |-> d]
  ELSE [kind |-> "generic", context |-> {}]

\* steps 2 to 4 of the handler, run without an await in between: the
\* system prompt, the headers and the metadata event, then the call of
\* client.chat.completions.create
OpenStream(d, st) ==
  /\ result' = d
  /\ qdrantStatus' = st
  /\ SYSTEM_PROMPT' = SystemPrompt(d)
  /\ LET r == ResWrite(res, MetadataEvent(d, st))
     IN /\ res' = r
        /\ llm' = [llm EXCEPT
                     !.state = "pending",
                     !.written = Len(r.events),
                     !.messages =
                       <<[role |-> "system", content |-> SystemPrompt(d)],
                         [role |-> "user",
                          content |-> [kind |-> userQuery, context |-> {}]]>>]
  /\ cpc' = "calling"

\* (variant) the retrieval recreates the collection
ChatRetrieveOkRecreates ==
  /\ cpc = "retrieving"
  /\ collExists' = TRUE
  /\ index' = {}
  /\ OpenStream({}, "success")
  /\ UNCHANGED <<OPENAI_API_KEY, userQuery, searchCalls, fragments>>
  /\ UNCHANGED <<queue, pc, docs, clr, deleteCalls, overlap, lastDone>>
  /\ UNCHANGED <<clientClosed, earlier, others>>
  /\ UNCHANGED uploadVars

\* the retriever resolves (fromExistingCollection creates the collection
\* when it is missing)
ChatRetrieveOk ==
  /\ cpc = "retrieving"
  /\ collExists' = TRUE
  /\ \E d \in SearchResults(index) : OpenStream(d, "success")
  /\ UNCHANGED <<OPENAI_API_KEY, userQuery, searchCalls, fragments>>
  /\ UNCHANGED <<index, queue, pc, docs, clr, deleteCalls, overlap, lastDone>>
  /\ UNCHANGED <<clientClosed, earlier, others>>
  /\ UNCHANGED uploadVars

\* (variant) a failed retrieval fails the request
ChatRetrieveFailRejects ==
  /\ cpc = "retrieving"
  /\ qdrantStatus' = "failed"
  /\ res' = ResJson(res, 503, "Service unavailable")
  /\ cpc' = "finished"
  /\ UNCHANGED <<OPENAI_API_KEY, userQuery, result, SYSTEM_PROMPT, llm,
                 searchCalls, fragments>>
  /\ UNCHANGED <<clientClosed, earlier, others>>
  /\ UNCHANGED <<ingestVars, uploadVars>>

\* the embedding call or the vector database fails: caught, the request
\* goes on without documents
ChatRetrieveFail ==
  /\ cpc = "retrieving"
  /\ OpenStream({}, "failed")
  /\ UNCHANGED <<OPENAI_API_KEY, userQuery, searchCalls, fragments>>
  /\ UNCHANGED <<clientClosed, earlier, others>>
  /\ UNCHANGED <<ingestVars, uploadVars>>

\* client.chat.completions.create resolves with a stream
ChatCreateOk ==
  /\ cpc = "calling"
  /\ cpc' = "streaming"
  /\ UNCHANGED <<OPENAI_API_KEY, userQuery, result, qdrantStatus,
                 SYSTEM_PROMPT, res, llm, searchCalls, fragments>>
  /\ UNCHANGED <<clientClosed, earlier, others>>
  /\ UNCHANGED <<ingestVars, uploadVars>>

\* the errors the model call is made to fail with
Statuses == {0, 400, 401, 403, 404, 429, 500, 600}

ChatErrors ==
  {[status |-> s, response |-> 0, message |-> {}, inner |-> Absent,
    data |-> Absent] : s \in Statuses}
  \cup {[status |-> 0, response |-> 0, message |-> {t}, inner |-> Absent,
         data |-> Absent] : t \in Tokens}
  \cup {[status |-> s, response |-> 0, message |-> {q} \cup m,
         inner |-> Absent, data |-> Absent] :
          s \in {0, 429}, q \in {"quota", "insufficient_quota"},
          m \in {{}, {"401"}, {"model"}}}
  \cup {[status |-> 0, response |-> 429, message |-> Absent,
         inner |-> {"quota"}, data |-> Absent],
        [status |-> 0, response |-> 0, message |-> Absent,
         inner |-> Absent, data |-> {"timeout"}],
        [status |-> 0, response |-> 0, message |-> Absent,
         inner |-> Absent, data |-> Absent]}

\* create rejects, or the stream throws while it is iterated: the
\* catch (openaiError) block
\* (variant) a failed model call is answered with a JSON error response
ChatModelFailJson(err) ==
  /\ cpc \in {"calling", "streaming"}
  /\ err \in ChatErrors
  /\ res' = ResJson(res, ErrorStatus(err), "OpenAI API error")
  /\ llm' = [llm EXCEPT !.state = "failed", !.err = err]
  /\ cpc' = "finished"
  /\ UNCHANGED <<OPENAI_API_KEY, userQuery, result, qdrantStatus,
                 SYSTEM_PROMPT, searchCalls, fragments>>
  /\ UNCHANGED <<clientClosed, earlier, others>>
  /\ UNCHANGED <<ingestVars, uploadVars>>

ChatModelFail(err) ==
  /\ cpc \in {"calling", "streaming"}
  /\ err \in ChatErrors
  /\ res' = ResApply(res, CatchOps(err))
  /\ llm' = [llm EXCEPT !.state = "failed", !.err = err]
  /\ cpc' = "finished"
  /\ UNCHANGED <<OPENAI_API_KEY, userQuery, result, qdrantStatus,
                 SYSTEM_PROMPT, searchCalls, fragments>>
  /\ UNCHANGED <<clientClosed, earlier, others>>
  /\ UNCHANGED <<ingestVars, uploadVars>>

Contents == {"", "a", "b"}

\* (variant) a content event is written for every chunk
ChatFragmentWritesEmpty(c) ==
  /\ cpc = "streaming"
  /\ Len(fragments) < MaxFragments
  /\ c \in Contents
  /\ fragments' = Append(fragments, c)
  /\ res' = ResWrite(res, ContentEvent(c))
  /\ UNCHANGED <<OPENAI_API_KEY, cpc, userQuery, result, qdrantStatus,
                 SYSTEM_PROMPT, llm, searchCalls>>
  /\ UNCHANGED <<clientClosed, earlier, others>>
  /\ UNCHANGED <<ingestVars, uploadVars>>

\* one chunk of the stream: chunk.choices[0]?.delta?.content || ''
ChatFragment(c) ==
  /\ cpc = "streaming"
  /\ Len(fragments) < MaxFragments
  /\ c \in Contents
  /\ fragments' = Append(fragments, c)
  /\ res' = IF c # "" THEN ResWrite(res, ContentEvent(c)) ELSE res
  /\ UNCHANGED <<OPENAI_API_KEY, cpc, userQuery, result, qdrantStatus,
                 SYSTEM_PROMPT, llm, searchCalls>>
  /\ UNCHANGED <<clientClosed, earlier, others>>
  /\ UNCHANGED <<ingestVars, uploadVars>>

\* the stream is exhausted: the completion signal
ChatStreamDone ==
  /\ cpc = "streaming"
  /\ res' = ResApply(res, DoneOps)
  /\ llm' = [llm EXCEPT !.state = "ok"]
  /\ cpc' = "finished"
  /\ UNCHANGED <<OPENAI_API_KEY, userQuery, result, qdrantStatus,
                 SYSTEM_PROMPT, searchCalls, fragments>>
  /\ UNCHANGED <<clientClosed, earlier, others>>
  /\ UNCHANGED <<ingestVars, uploadVars>>

\* the handler has returned; the server waits for the next request
ChatNextRequest ==
  /\ cpc = "finished"
  /\ cpc' = "idle"
  /\ RequestLocals
  /\ earlier' = TRUE
  /\ UNCHANGED <<OPENAI_API_KEY, others>>
  /\ UNCHANGED <<ingestVars, uploadVars>>

\* the client closes its connection while the response is open; the
\* handler registers no listener on req or res and passes no abort
\* signal to the model call, so none of its locals changes
ChatClientClose ==
  /\ cpc \in {"calling", "streaming"}
  /\ ~clientClosed
  /\ clientClosed' = TRUE
  /\ UNCHANGED <<OPENAI_API_KEY, cpc, userQuery, result, qdrantStatus,
                 SYSTEM_PROMPT, res, llm, searchCalls, fragments, earlier,
                 others>>
  /\ UNCHANGED <<ingestVars, uploadVars>>

(***************************************************************************)
(* The other chat requests the server handles at the same time.  They run  *)
(* the same handler; of each one the model keeps the position only, since  *)
(* its locals are its own and what it shares with the observed request is  *)
(* the collection.                                                         *)
(***************************************************************************)
OtherChats == 1..MaxOthers

OtherUnchanged ==
  UNCHANGED <<OPENAI_API_KEY, cpc, userQuery, result, qdrantStatus,
              SYSTEM_PROMPT, res, llm, searchCalls, fragments, clientClosed,
              earlier>>

\* a valid request arrives; its retrieval starts
OtherRequest(o) ==
  /\ OPENAI_API_KEY
  /\ others[o] = "idle"
  /\ others' = [others EXCEPT ![o] = "retrieving"]
  /\ OtherUnchanged
  /\ UNCHANGED <<ingestVars, uploadVars>>

\* its retriever resolves (fromExistingCollection creates the collection
\* when it is missing); the stream is opened
OtherRetrieveOk(o) ==
  /\ others[o] = "retrieving"
  /\ collExists' = TRUE
  /\ others' = [others EXCEPT ![o] = "streaming"]
  /\ OtherUnchanged
  /\ UNCHANGED <<index, queue, pc, docs, clr, deleteCalls, overlap, lastDone>>
  /\ UNCHANGED uploadVars

\* its retrieval fails; the stream is opened without documents
OtherRetrieveFail(o) ==
  /\ others[o] = "retrieving"
  /\ others' = [others EXCEPT ![o] = "streaming"]
  /\ OtherUnchanged
  /\ UNCHANGED <<ingestVars, uploadVars>>

\* its stream ends, with done or with an error event
OtherFinish(o) ==
  /\ others[o] = "streaming"
  /\ others' = [others EXCEPT ![o] = "idle"]
  /\ OtherUnchanged
  /\ UNCHANGED <<ingestVars, uploadVars>>

----------------------------------------------------------------------------
(***************************************************************************)
(* The upload endpoints of the server (index.js) and its queue.  Upload    *)
(* requests are handled one after the other; request number n carries the  *)
(* bytes n, and the job added for it is job n.                             *)
(***************************************************************************)
Endpoints == {"/api/upload", "/api/upload-pdf", "/api/upload/pdf"}

\* the endpoints for PDF documents (multer field 'pdf')
PdfEndpoints == {"/api/upload-pdf", "/api/upload/pdf"}

\* file-upload.tsx: the endpoint the upload form of the web client posts to
ClientEndpoint == "/api/upload-pdf"

\* req.file.mimetype as the client declared it ("": no type)
Mimetypes == {"application/pdf", "Application/PDF", "text/plain", ""}

\* String.prototype.toLowerCase on the declared types
ToLowerCase(m) == IF m = "Application/PDF" THEN "application/pdf" ELSE m

\* err.code of an error of the multipart parser ("undefined": no code)
MulterCodes == {"LIMIT_UNEXPECTED_FILE", "undefined"}

\* err.code && /^LIMIT_/.test(err.code)
IsMulter(code) == code = "LIMIT_UNEXPECTED_FILE"

\* req.file.originalname, a string of characters
FileNames == {<<"a", " ">>, <<"a", "_">>}

\* the characters of the names that [a-zA-Z0-9._-] matches
SafeChars == {"a", "_"}

\* originalname.replace(/[^a-zA-Z0-9._-]/g, '_')
Sanitize(name) ==
  [i \in DOMAIN name |-> IF name[i] \in SafeChars THEN name[i] ELSE "_"]

\* the values Date.now() returns while the uploads are handled
Times == 1..MaxJobs

\* join(tmpdir(), `pdf-rag-${Date.now()}-${sanitized originalname}`)
TempPath(t, name) == [ms |-> t, name |-> Sanitize(name)]

NoPath == [ms |-> 0, name |-> <<>>]

\* what the multipart parser made of the request: an error, no file, or
\* a file
Parts ==
  {[err |-> c, file |-> "none", name |-> <<>>] : c \in MulterCodes}
  \cup {[err |-> "none", file |-> "none", name |-> <<>>]}
  \cup {[err |-> "none", file |-> m, name |-> n] :
          m \in Mimetypes, n \in FileNames}

\* writeFileSync either writes the file or throws
DiskOutcomes == {"written", "throws"}

NoUpload ==
  [pc |-> "idle", id |-> 0, endpoint |-> "none", err |-> "none",
   file |-> "none", name |-> <<>>, url |-> FALSE, tempPath |-> NoPath,
   adds |-> 0, submitted |-> NoPath, warned |-> FALSE]

NoUploadResponse ==
  [status |-> 0, error |-> "", message |-> "", url |-> FALSE]

\* res.status(code).json({ error, message, url })
UploadResponse(code, error, message, url) ==
  [status |-> code, error |-> error, message |-> message, url |-> url]

\* uploadFile.js: isS3Configured()
isS3Configured == AWS_KEYS /\ AWS_S3_BUCKET

\* writeFileSync(path, buffer): creates or overwrites the file
WriteFile(files, path, bytes) ==
  {f \in files : f.path # path} \cup {[path |-> path, bytes |-> bytes]}

\* userinfo characters the URL parser percent-encodes, with their codes
PercentCodes ==
  [c \in {"@", ":", "/"} |->
     CASE c = "@" -> <<"%", "4", "0">>
       [] c = ":" -> <<"%", "3", "A">>
       [] c = "/" -> <<"%", "2", "F">>]

\* the text of a credential inside a URL; the getters url.username and
\* url.password return this text, they do not decode it
RECURSIVE PercentEncode(_)
PercentEncode(text) ==
  IF text = <<>> THEN <<>>
  ELSE (IF Head(text) \in DOMAIN PercentCodes
        THEN PercentCodes[Head(text)] ELSE <<Head(text)>>)
       \o PercentEncode(Tail(text))

\* the number a sequence of decimal digits denotes
RECURSIVE Number(_)
Number(digits) ==
  IF digits = <<>> THEN 0
  ELSE 10 * Number(SubSeq(digits, 1, Len(digits) - 1)) + digits[Len(digits)]

NaN == -1

\* parseInt(url.port): NaN for the empty string
ParseInt(digits) == IF digits = <<>> THEN NaN ELSE Number(digits)

\* x || 6379: NaN and 0 are falsy
OrDefaultPort(x) == IF x = NaN \/ x = 0 THEN 6379 ELSE x

Undefined == [defined |-> FALSE, text |-> <<>>]

\* text || undefined: the empty string is falsy
OrUndefined(text) ==
  IF text = <<>> THEN Undefined ELSE [defined |-> TRUE, text |-> text]

\* values of REDIS_URL: unset, the empty string, a text without a scheme,
\* or scheme://[username[:password]@]host[:port] for the credentials,
\* host and port (decimal digits) the record names
Usernames == {<<>>, <<"d">>}
Passwords == {<<>>, <<"s", "3">>, <<"p", "@", "s">>}
Hosts == {"localhost", "redis.internal"}
Ports == {<<>>, <<0>>, <<6, 3, 7, 9>>, <<6, 3, 8, 0>>, <<7, 0, 0, 0, 0>>}

UnsetUrl ==
  [kind |-> "unset", username |-> <<>>, password |-> <<>>,
   host |-> "", port |-> <<>>]

RedisUrls ==
  {[UnsetUrl EXCEPT !.kind = k] : k \in {"unset", "empty"}}
  \cup {[UnsetUrl EXCEPT !.kind = "text", !.host = h] : h \in Hosts}
  \cup [kind : {"url"}, username : Usernames, password : Passwords,
        host : Hosts, port : Ports]

\* new URL(redisUrl) throws a TypeError: no scheme, or a port above 65535
InvalidURL(u) == u.kind = "text" \/ Number(u.port) > 65535

\* new URL(redisUrl): the fields getRedisConnection reads
NewURL(u) ==
  [hostname |-> u.host, port |-> u.port,
   username |-> PercentEncode(u.username),
   password |-> PercentEncode(u.password)]

DefaultConnection ==
  [host |-> "localhost", port |-> 6379, password |-> Undefined,
   username |-> Undefined]

\* index.js: getRedisConnection()
getRedisConnection(u) ==
  IF u.kind \in {"unset", "empty"} \/ InvalidURL(u) THEN DefaultConnection
  ELSE [host |-> NewURL(u).hostname,
        port |-> OrDefaultPort(ParseInt(NewURL(u).port)),
        password |-> OrUndefined(NewURL(u).password),
        username |-> OrUndefined(NewURL(u).username)]

\* worker.js: getRedisConnection()
getRedisConnectionWorker(u) ==
  IF u.kind \in {"unset", "empty"} \/ InvalidURL(u) THEN DefaultConnection
  ELSE [host |-> NewURL(u).hostname,
        port |-> OrDefaultPort(ParseInt(NewURL(u).port)),
        password |-> OrUndefined(NewURL(u).password),
        username |-> OrUndefined(NewURL(u).username)]

ServerQueueName == "file-upload-queue"   \* index.js: new Queue(...)
WorkerQueueName == "file-upload-queue"   \* worker.js: new Worker(...)

NoQueue == [name |-> "none", connection |-> DefaultConnection]

\* the server module is loaded: new Queue('file-upload-queue', ...) returns
\* the queue, or throws and the catch block installs the mock queue.  The
\* constructor opens its connection in the background, so whether it
\* throws does not depend on the broker being reachable.
ServerStart(thrown) ==
  /\ enqueuer = "unset"
  /\ enqueuer' = IF thrown THEN "mock" ELSE "real"
  /\ serverQueue' = [name |-> ServerQueueName,
                     connection |-> getRedisConnection(REDIS_URL)]
  /\ UNCHANGED <<brokerUp, AWS_KEYS, AWS_S3_BUCKET, up, ures, uploads,
                 s3Objects, tempFiles, s3Vars, REDIS_URL, workerQueue,
                 qdrantVars, clientVars>>
  /\ UNCHANGED <<ingestVars, chatVars>>

\* values of QDRANT_URL: unset, the empty string, or the text of a URL
UnsetQdrantUrl == [set |-> FALSE, text |-> ""]

QdrantUrls ==
  {UnsetQdrantUrl}
  \cup {[set |-> TRUE, text |-> t] :
          t \in {"", "http://localhost:6333", "http://qdrant:6333"}}

\* worker.js: process.env.QDRANT_URL || 'http://localhost:6333'
WorkerQdrantUrl(v) ==
  IF v.set /\ v.text # "" THEN v.text ELSE "http://localhost:6333"

WorkerCollection == "langchainjs-testing"   \* worker.js: QDRANT_COLLECTION

\* index.js: the url and collectionName literals of the chat handler
ChatQdrantUrl == "http://localhost:6333"
ChatCollection == "langchainjs-testing"

\* the collection a process addresses: endpoint and collection name
Store(url, name) == [url |-> url, collectionName |-> name]

ChatStore == Store(ChatQdrantUrl, ChatCollection)

NoStore == [clear |-> Store("", ""), insert |-> Store("", "")]

\* the worker module is loaded: new Worker('file-upload-queue', ...)
WorkerStart ==
  /\ workerQueue = NoQueue
  /\ workerStore' = [clear |-> Store(WorkerQdrantUrl(QDRANT_URL),
                                     WorkerCollection),
                     insert |-> Store(WorkerQdrantUrl(QDRANT_URL),
                                      WorkerCollection)]
  /\ QDRANT_URL' = QDRANT_URL
  /\ workerQueue' = [name |-> WorkerQueueName,
                     connection |-> getRedisConnectionWorker(REDIS_URL)]
  /\ UNCHANGED <<enqueuer, brokerUp, AWS_KEYS, AWS_S3_BUCKET, up, ures,
                 uploads, s3Objects, tempFiles, s3Vars, REDIS_URL,
                 serverQueue, clientVars>>
  /\ UNCHANGED <<ingestVars, chatVars>>

BucketError == "S3 bucket not set"
StorageOutcomes == {"ok", "error"}
NoLibCall == [op |-> "none", error |-> "", called |-> FALSE]

\* (variant) the client is taken before the bucket name is read
StorageOpClientFirst(op, outcome) ==
  /\ s3Instance' = TRUE
  /\ lib' = IF ~AWS_S3_BUCKET
            THEN [op |-> op, error |-> BucketError, called |-> FALSE]
            ELSE [op |-> op,
                  error |-> IF outcome = "ok" THEN "" ELSE "storage",
                  called |-> TRUE]

\* the outcome of an operation that reads the bucket name, then takes
\* the client with getS3() and awaits one call of it
StorageOp(op, outcome) ==
  IF ~AWS_S3_BUCKET
  THEN /\ lib' = [op |-> op, error |-> BucketError, called |-> FALSE]
       /\ s3Instance' = s3Instance
  ELSE /\ lib' = [op |-> op,
                  error |-> IF outcome = "ok" THEN "" ELSE "storage",
                  called |-> TRUE]
       /\ s3Instance' = TRUE

\* uploadFile.js: uploadFile(filePath, keyName), called directly
uploadFile(outcome) ==
  /\ enqueuer # "unset"
  /\ StorageOp("uploadFile", outcome)
  /\ UNCHANGED <<enqueuer, brokerUp, AWS_KEYS, AWS_S3_BUCKET, up, ures,
                 uploads, s3Objects, tempFiles, redisVars, qdrantVars,
                 clientVars>>
  /\ UNCHANGED <<ingestVars, chatVars>>

\* readFile.js: readFileFromS3(keyName), called directly
readFileFromS3(outcome) ==
  /\ enqueuer # "unset"
  /\ StorageOp("readFileFromS3", outcome)
  /\ UNCHANGED <<enqueuer, brokerUp, AWS_KEYS, AWS_S3_BUCKET, up, ures,
                 uploads, s3Objects, tempFiles, redisVars, qdrantVars,
                 clientVars>>
  /\ UNCHANGED <<ingestVars, chatVars>>

\* the multipart parser failed: the wrappers multerUploadPdf and
\* multerUploadFile answer; /api/upload/pdf has no wrapper, so the error
\* handler of express answers 500
MulterRejection(e, code) ==
  IF e = "/api/upload/pdf"
  THEN UploadResponse(500, "Internal Server Error", "", FALSE)
  ELSE UploadResponse(IF IsMulter(code) THEN 400 ELSE 500,
                      "File upload error", "Upload failed", FALSE)

\* (variant) the handlers do not look at req.file
NoFileUnchecked(part) == FALSE

\* !req.file
NoFile(part) == part.file = "none"

\* the response of the checks a handler makes before its first call, or
\* NoUploadResponse when the request passes them
Rejection(e, part) ==
  IF part.err # "none" THEN MulterRejection(e, part.err)
  ELSE IF NoFile(part)
  THEN UploadResponse(400, "No file uploaded", "", FALSE)
  ELSE IF e = "/api/upload"
  THEN IF ~AWS_S3_BUCKET
       THEN UploadResponse(500, "S3 bucket not set", "", FALSE)
       ELSE NoUploadResponse
  ELSE IF e = "/api/upload-pdf"
  THEN IF ToLowerCase(part.file) # "application/pdf"
       THEN UploadResponse(400, "Invalid file type",
                           "Only PDF files are accepted.", FALSE)
       ELSE IF ~isS3Configured
       THEN UploadResponse(503, "S3 not configured",
                           "File storage is not available.", FALSE)
       ELSE NoUploadResponse
  ELSE NoUploadResponse

\* the handler calls uploadFromBuffer before anything else
StoresFirst(e) == e \in {"/api/upload", "/api/upload-pdf"} \/ isS3Configured

\* /api/upload/pdf after the object storage part: the temp copy is
\* written and queue.add is called with its path; a throw of
\* writeFileSync is answered by the outer catch
WriteTempAndAdd(u, t, disk) ==
  IF disk = "throws"
  THEN /\ up' = [u EXCEPT !.pc = "finished"]
       /\ ures' = UploadResponse(500, "Failed to upload file", "", FALSE)
       /\ tempFiles' = tempFiles
  ELSE /\ up' = [u EXCEPT !.pc = "enqueuing",
                          !.tempPath = TempPath(t, u.name),
                          !.adds = @ + 1,
                          !.submitted = TempPath(t, u.name)]
       /\ ures' = NoUploadResponse
       /\ tempFiles' = WriteFile(tempFiles, TempPath(t, u.name), u.id)

\* an upload request arrives at endpoint e; the handler runs up to its
\* first await or to its response
UploadRequest(e, part, t, disk) ==
  /\ enqueuer # "unset"
  /\ up.pc \in {"idle", "finished"}
  /\ uploads < MaxJobs
  /\ uploads' = uploads + 1
  /\ LET u == [NoUpload EXCEPT !.id = uploads + 1, !.endpoint = e,
                               !.err = part.err, !.file = part.file,
                               !.name = part.name]
     IN IF Rejection(e, part) # NoUploadResponse
        THEN /\ up' = [u EXCEPT !.pc = "finished"]
             /\ ures' = Rejection(e, part)
             /\ tempFiles' = tempFiles
        ELSE IF StoresFirst(e)
        THEN /\ up' = [u EXCEPT !.pc = "storing"]
             /\ ures' = NoUploadResponse
             /\ tempFiles' = tempFiles
        ELSE WriteTempAndAdd(u, t, disk)
  /\ s3Instance' = (s3Instance \/ up'.pc = "storing")
  /\ UNCHANGED <<redisVars, qdrantVars, clientVars, lib, enqueuer, brokerUp, AWS_KEYS, AWS_S3_BUCKET,
                 s3Objects>>
  /\ UNCHANGED <<ingestVars, chatVars>>

\* uploadFromBuffer resolves with the url of the stored object
UploadStoreOk(t, disk) ==
  /\ up.pc = "storing"
  /\ s3Objects' = s3Objects \cup {up.id}
  /\ IF up.endpoint = "/api/upload"
     THEN /\ up' = [up EXCEPT !.pc = "finished", !.url = TRUE]
          /\ ures' = UploadResponse(200, "", "File uploaded to S3", TRUE)
          /\ tempFiles' = tempFiles
     ELSE IF up.endpoint = "/api/upload-pdf"
     THEN /\ up' = [up EXCEPT !.pc = "finished", !.url = TRUE]
          /\ ures' = UploadResponse(200, "", "", TRUE)
          /\ tempFiles' = tempFiles
     ELSE WriteTempAndAdd([up EXCEPT !.url = TRUE], t, disk)
  /\ UNCHANGED <<redisVars, qdrantVars, clientVars, s3Vars, enqueuer, brokerUp, AWS_KEYS, AWS_S3_BUCKET, uploads>>
  /\ UNCHANGED <<ingestVars, chatVars>>

\* uploadFromBuffer rejects: every handler answers 500
UploadStoreFail ==
  /\ up.pc = "storing"
  /\ up' = [up EXCEPT !.pc = "finished"]
  /\ ures' = UploadResponse(500,
               IF up.endpoint = "/api/upload/pdf"
               THEN "Failed to upload file to S3" ELSE "Upload failed",
               "", FALSE)
  /\ UNCHANGED <<redisVars, qdrantVars, clientVars, s3Vars, enqueuer, brokerUp, AWS_KEYS, AWS_S3_BUCKET, uploads,
                 s3Objects, tempFiles>>
  /\ UNCHANGED <<ingestVars, chatVars>>

\* the job of the queue.add call has reached the broker
UploadJobAdded ==
  /\ up.pc = "enqueuing"
  /\ enqueuer = "real"
  /\ brokerUp
  /\ queue' = Append(queue, up.id)
  /\ up' = [up EXCEPT !.pc = "added"]
  /\ UNCHANGED <<redisVars, qdrantVars, clientVars, s3Vars, enqueuer, brokerUp, AWS_KEYS, AWS_S3_BUCKET, ures, uploads,
                 s3Objects, tempFiles>>
  /\ UNCHANGED <<workerVars, chatVars>>

\* res.json(url ? { message: 'uploaded', url } : { message: 'uploaded' })
Uploaded(u) == UploadResponse(200, "", "uploaded", u.url)

\* (variant) a rejected queue.add fails the upload
QueueErrorSurfaced(u) == UploadResponse(500, "Failed to upload file", "", FALSE)

\* catch (queueError): console.warn, then the handler goes on
QueueErrorResponse(u) == Uploaded(u)

\* queue.add has settled without an error: the real queue after the
\* broker took the job, the mock queue after its console.warn
AddSettled ==
  \/ up.pc = "added"
  \/ up.pc = "enqueuing" /\ enqueuer = "mock"

\* await queue.add(...) resolves; the handler answers
UploadAddOk ==
  /\ AddSettled
  /\ up' = [up EXCEPT !.pc = "finished", !.warned = (enqueuer = "mock")]
  /\ ures' = Uploaded(up)
  /\ UNCHANGED <<redisVars, qdrantVars, clientVars, s3Vars, enqueuer, brokerUp, AWS_KEYS, AWS_S3_BUCKET, uploads,
                 s3Objects, tempFiles>>
  /\ UNCHANGED <<ingestVars, chatVars>>

\* await queue.add(...) rejects: the error is logged; the handler answers
UploadAddFail ==
  /\ up.pc = "enqueuing"
  /\ enqueuer = "real"
  /\ up' = [up EXCEPT !.pc = "finished", !.warned = TRUE]
  /\ ures' = QueueErrorResponse(up)
  /\ UNCHANGED <<redisVars, qdrantVars, clientVars, s3Vars, enqueuer, brokerUp, AWS_KEYS, AWS_S3_BUCKET, uploads,
                 s3Objects, tempFiles>>
  /\ UNCHANGED <<ingestVars, chatVars>>

----------------------------------------------------------------------------
PriorIndexes ==
  {{[id |-> i, doc |-> 0, page |-> i] : i \in 1..n} : n \in 0..MaxPrior}

IngestInit ==
  /\ collExists \in BOOLEAN
  /\ index \in PriorIndexes
  /\ (~collExists => index = {})
  /\ queue = [i \in 1..MaxJobs |-> i]
  /\ pc = [j \in Jobs |-> "waiting"]
  /\ docs = [j \in Jobs |-> 0]
  /\ clr = [j \in Jobs |-> ClrIdle]
  /\ deleteCalls = [j \in Jobs |-> 0]
  /\ overlap = [j \in Jobs |-> FALSE]
  /\ lastDone = 0

\* the documents a PDF loads into: none (no page has text) or MaxPages
PageCounts == {0, MaxPages}

\* the steps of a run against a vector database that answers every call
ReliableNext ==
  \E j \in Jobs :
    \/ Start(j)
    \/ \E n \in PageCounts : LoadOk(j, n)
    \/ ScrollOk(j)
    \/ ScrollNotFound(j)
    \/ DeleteOk(j)
    \/ ConnectOk(j)
    \/ EmbedOk(j)
    \/ InsertOk(j)

FaultNext ==
  \E j \in Jobs :
    \/ StartFail(j)
    \/ LoadFail(j)
    \/ \E r \in Responses : ScrollError(j, r)
    \/ \E r \in Responses : DeleteError(j, r)
    \/ ClearNetworkError(j)
    \/ EmbedFail(j)
    \/ InsertFail(j)

IngestNext == ReliableNext \/ FaultNext

\* the vector database answers every call of the clear; the embedding
\* call, the connection of the store or the upsert may fail
EmbedFaultNext ==
  \/ ReliableNext
  \/ \E j \in Jobs : EmbedFail(j)
  \/ \E j \in Jobs : InsertFail(j)

ChatInit ==
  /\ OPENAI_API_KEY \in BOOLEAN
  /\ cpc = "idle"
  /\ userQuery = "none"
  /\ result = {}
  /\ qdrantStatus = "not_attempted"
  /\ SYSTEM_PROMPT = [kind |-> "unset", context |-> {}]
  /\ res = NoResponse
  /\ llm = NoCall
  /\ searchCalls = 0
  /\ fragments = <<>>
  /\ clientClosed = FALSE
  /\ earlier = FALSE
  /\ others = [o \in OtherChats |-> "idle"]

\* the steps of a chat request once it is in flight
ChatStep ==
  \/ ChatRetrieveOk
  \/ ChatRetrieveFail
  \/ ChatCreateOk
  \/ \E err \in ChatErrors : ChatModelFail(err)
  \/ \E c \in Contents : ChatFragment(c)
  \/ ChatStreamDone

ChatNext ==
  \/ \E q \in Queries : ChatRequest(q)
  \/ ChatStep
  \/ ChatClientClose
  \/ ChatNextRequest

OtherNext ==
  \E o \in OtherChats :
    \/ OtherRequest(o)
    \/ OtherRetrieveOk(o)
    \/ OtherRetrieveFail(o)
    \/ OtherFinish(o)

ChatsNext == ChatNext \/ OtherNext

----------------------------------------------------------------------------
(***************************************************************************)
(* The chat window of the web client, chat.tsx.  The body of a streamed    *)
(* response is a sequence of tokens: every event the server writes is      *)
(* `data: `, the JSON text (two tokens, so that a read can end inside      *)
(* it) and two newlines.  A read returns any non-empty prefix of what is   *)
(* left of the body.                                                       *)
(***************************************************************************)
NoEvent == [type |-> "none"]

DataToken == [t |-> "data", ev |-> NoEvent, part |-> 0]
JsonToken(ev, k) == [t |-> "json", ev |-> ev, part |-> k]
NewLine == [t |-> "nl", ev |-> NoEvent, part |-> 0]

\* res.write(`data: ${JSON.stringify(ev)}\n\n`)
EventText(ev) ==
  <<DataToken, JsonToken(ev, 1), JsonToken(ev, 2), NewLine, NewLine>>

RECURSIVE Wire(_)
Wire(evs) ==
  IF evs = <<>> THEN <<>> ELSE EventText(Head(evs)) \o Wire(Tail(evs))

\* the longest response body
MaxWire == 5 * (MaxFragments + 2)

\* chunk.split('\n'): the lines of a chunk, the last one included
RECURSIVE Split(_, _)
Split(tokens, line) ==
  IF tokens = <<>> THEN <<line>>
  ELSE IF Head(tokens).t = "nl" THEN <<line>> \o Split(Tail(tokens), <<>>)
  ELSE Split(Tail(tokens), Append(line, Head(tokens)))

\* line.startsWith('data: ')
StartsWithData(line) == line # <<>> /\ line[1].t = "data"

\* JSON.parse(line.substring(6)) returns: the rest of the line is the
\* whole JSON text of one event
Parses(line) ==
  /\ Len(line) = 3
  /\ line[2] = JsonToken(line[2].ev, 1)
  /\ line[3] = JsonToken(line[2].ev, 2)

\* the error text the window shows for an error event, by data.status
ErrorText(ev) ==
  CASE ev.status = 400 -> <<"Invalid Request">>
    [] ev.status = 401 -> <<"Authentication Error">>
    [] ev.status = 403 -> <<"Quota Exceeded">>
    [] ev.status = 404 -> <<"Not Found">>
    [] ev.status = 429 -> <<"Rate Limited">>
    [] ev.status \in {500, 503} -> <<"Server Error">>
    [] OTHER -> <<"Error">>

ConnectionErrorText == <<"Connection Error">>

UserMessage(text) ==
  [role |-> "user", content |-> <<text>>, hasDocuments |-> FALSE,
   documents |-> {}]

\* { role: 'assistant', content } : no documents field
AssistantMessage(content) ==
  [role |-> "assistant", content |-> content, hasDocuments |-> FALSE,
   documents |-> {}]

\* { role: 'assistant', content: streamedContent, documents: docs }
StreamedMessage(content, d) ==
  [role |-> "assistant", content |-> content, hasDocuments |-> TRUE,
   documents |-> d]

NoSend ==
  [pc |-> "idle", assistantMessageIndex |-> 0, streamedContent |-> <<>>,
   docs |-> {}]

\* one line of a chunk: the body of the for loop over lines; s holds the
\* locals, msgs the messages
HandleLine(st, line) ==
  IF st.send.pc = "ended" \/ ~StartsWithData(line) \/ ~Parses(line) THEN st
  ELSE LET data == line[2].ev
           s == st.send
       IN CASE data.type = "metadata" ->
                 [st EXCEPT !.send.docs = data.docs]
            [] data.type = "content" ->
                 [st EXCEPT
                    !.send.streamedContent = @ \o <<data.content>>,
                    !.msgs[s.assistantMessageIndex] =
                       StreamedMessage(s.streamedContent \o <<data.content>>,
                                       s.docs)]
            [] data.type = "error" ->
                 [st EXCEPT
                    !.send.pc = "ended",
                    !.msgs[s.assistantMessageIndex] =
                       AssistantMessage(ErrorText(data))]
            [] OTHER -> st

RECURSIVE HandleLines(_, _)
HandleLines(st, lines) ==
  IF lines = <<>> THEN st
  ELSE HandleLines(HandleLine(st, Head(lines)), Tail(lines))

\* the text of the input field
Inputs == {"", " ", "q"}

\* message.trim()
Trim(text) == IF text = " " THEN "" ELSE text

\* the documents of a metadata event
ClientDocs == {{}, {[id |-> 1, doc |-> 1, page |-> 1]}}

\* the content events of a stream: up to MaxFragments non-empty fragments
ContentSeqs ==
  UNION {[1..n -> {ContentEvent("a"), ContentEvent("b")}] :
           n \in 0..MaxFragments}

\* the responses of GET /api/chat: a well-formed event stream, a JSON
\* error response, or no response (the server cannot be reached)
ClientResponses ==
  {[kind |-> "stream",
    events |-> <<MetadataEvent(d, "success")>> \o cs \o <<term>>] :
     d \in ClientDocs, cs \in ContentSeqs,
     term \in {DoneEvent, RateLimitEvent, GenericEvent(500)}}
  \cup {[kind |-> k, events |-> <<>>] : k \in {"json", "network"}}

\* the messages of the window before the send
Histories == {<<>>, <<UserMessage("q"), AssistantMessage(<<"a">>)>>}

\* handleSendChatMessage up to the await of fetch; the index of the
\* assistant message counts from 0
ClientSend(text) ==
  /\ send.pc = "idle"
  /\ Trim(text) # ""
  /\ messages' = messages \o <<UserMessage(text), AssistantMessage(<<>>)>>
  /\ send' = [NoSend EXCEPT !.pc = "fetching",
                            !.assistantMessageIndex = Len(messages) + 1]
  /\ UNCHANGED <<served, wire>>
  /\ UNCHANGED <<enqueuer, brokerUp, AWS_KEYS, AWS_S3_BUCKET, up, ures,
                 uploads, s3Objects, tempFiles, s3Vars, redisVars,
                 qdrantVars>>
  /\ UNCHANGED <<ingestVars, chatVars>>

\* fetch settles: it rejects, or the response is not an event stream
\* (both end in the catch block), or the body is read
ClientFetch(r) ==
  /\ send.pc = "fetching"
  /\ IF r.kind = "stream"
     THEN /\ send' = [send EXCEPT !.pc = "reading"]
          /\ served' = r.events
          /\ wire' = Wire(r.events)
          /\ messages' = messages
     ELSE /\ send' = [send EXCEPT !.pc = "ended"]
          /\ messages' =
               [messages EXCEPT ![send.assistantMessageIndex + 1] =
                  AssistantMessage(ConnectionErrorText)]
          /\ UNCHANGED <<served, wire>>
  /\ UNCHANGED <<enqueuer, brokerUp, AWS_KEYS, AWS_S3_BUCKET, up, ures,
                 uploads, s3Objects, tempFiles, s3Vars, redisVars,
                 qdrantVars>>
  /\ UNCHANGED <<ingestVars, chatVars>>

\* reader.read() resolves with the next n tokens of the body; the chunk
\* is split into lines and every line is handled
ClientRead(n) ==
  /\ send.pc = "reading"
  /\ n <= Len(wire)
  /\ LET st == HandleLines(
                 [send |-> [send EXCEPT !.assistantMessageIndex = @ + 1],
                  msgs |-> messages],
                 Split(SubSeq(wire, 1, n), <<>>))
     IN /\ send' = [st.send EXCEPT !.assistantMessageIndex = @ - 1]
        /\ messages' = st.msgs
  /\ wire' = SubSeq(wire, n + 1, Len(wire))
  /\ served' = served
  /\ UNCHANGED <<enqueuer, brokerUp, AWS_KEYS, AWS_S3_BUCKET, up, ures,
                 uploads, s3Objects, tempFiles, s3Vars, redisVars,
                 qdrantVars>>
  /\ UNCHANGED <<ingestVars, chatVars>>

\* reader.read() resolves with done: the loop is left, the function ends
ClientReadDone ==
  /\ send.pc = "reading"
  /\ wire = <<>>
  /\ send' = [send EXCEPT !.pc = "ended"]
  /\ UNCHANGED <<messages, served, wire>>
  /\ UNCHANGED <<enqueuer, brokerUp, AWS_KEYS, AWS_S3_BUCKET, up, ures,
                 uploads, s3Objects, tempFiles, s3Vars, redisVars,
                 qdrantVars>>
  /\ UNCHANGED <<ingestVars, chatVars>>

\* the server before index.js has created its queue; the environment
\* decides whether the broker is reachable and object storage configured
StartupInit ==
  /\ enqueuer = "unset"
  /\ brokerUp \in BOOLEAN
  /\ AWS_KEYS \in BOOLEAN
  /\ AWS_S3_BUCKET \in BOOLEAN
  /\ up = NoUpload
  /\ ures = NoUploadResponse
  /\ uploads = 0
  /\ s3Objects = {}
  /\ tempFiles = {}
  /\ s3Instance = FALSE
  /\ lib = NoLibCall
  /\ send = NoSend
  /\ served = <<>>
  /\ wire = <<>>

\* the worker runs with the default vector database
QdrantDefault ==
  /\ QDRANT_URL = UnsetQdrantUrl
  /\ workerStore = [clear |-> Store(WorkerQdrantUrl(UnsetQdrantUrl),
                                    WorkerCollection),
                    insert |-> Store(WorkerQdrantUrl(UnsetQdrantUrl),
                                     WorkerCollection)]

\* server and worker with the default broker connection
RedisDefault ==
  /\ REDIS_URL = UnsetUrl
  /\ serverQueue = [name |-> ServerQueueName,
                    connection |-> getRedisConnection(UnsetUrl)]
  /\ workerQueue = [name |-> WorkerQueueName,
                    connection |-> getRedisConnectionWorker(UnsetUrl)]
  /\ QdrantDefault

\* the server after MaxJobs uploads to /api/upload/pdf, one per
\* millisecond, without object storage: every job is in the queue
UploadsDone ==
  /\ enqueuer = "real"
  /\ brokerUp = TRUE
  /\ AWS_KEYS = FALSE
  /\ AWS_S3_BUCKET = FALSE
  /\ up = [pc |-> "finished", id |-> MaxJobs, endpoint |-> "/api/upload/pdf",
           err |-> "none", file |-> "application/pdf",
           name |-> <<"a", "_">>, url |-> FALSE,
           tempPath |-> TempPath(MaxJobs, <<"a", "_">>), adds |-> 1,
           submitted |-> TempPath(MaxJobs, <<"a", "_">>), warned |-> FALSE]
  /\ ures = Uploaded(up)
  /\ uploads = MaxJobs
  /\ s3Objects = {}
  /\ tempFiles = {[path |-> TempPath(j, <<"a", "_">>), bytes |-> j] : j \in Jobs}
  /\ s3Instance = FALSE
  /\ lib = NoLibCall
  /\ send = NoSend
  /\ served = <<>>
  /\ wire = <<>>
  /\ RedisDefault

\* the worker has not taken a job yet; no job is in the queue
IdleInit ==
  /\ StartupInit
  /\ messages = <<>>
  /\ ChatInit
  /\ OPENAI_API_KEY
  /\ collExists = TRUE
  /\ index = {}
  /\ queue = <<>>
  /\ pc = [j \in Jobs |-> "waiting"]
  /\ docs = [j \in Jobs |-> 0]
  /\ clr = [j \in Jobs |-> ClrIdle]
  /\ deleteCalls = [j \in Jobs |-> 0]
  /\ overlap = [j \in Jobs |-> FALSE]
  /\ lastDone = 0

\* the worker runs with the default connection; the server is loaded next
UploadInit ==
  /\ IdleInit
  /\ REDIS_URL = UnsetUrl
  /\ serverQueue = NoQueue
  /\ workerQueue = [name |-> WorkerQueueName,
                    connection |-> getRedisConnectionWorker(UnsetUrl)]
  /\ QdrantDefault

\* server and worker before either is loaded, for a value of REDIS_URL
RedisInit ==
  /\ IdleInit
  /\ brokerUp = TRUE
  /\ AWS_KEYS = FALSE
  /\ AWS_S3_BUCKET = FALSE
  /\ REDIS_URL \in RedisUrls
  /\ serverQueue = NoQueue
  /\ workerQueue = NoQueue
  /\ QDRANT_URL \in QdrantUrls
  /\ workerStore = NoStore

RedisNext ==
  \/ \E thrown \in BOOLEAN : ServerStart(thrown)
  \/ WorkerStart

UploadNext ==
  \/ \E thrown \in BOOLEAN : ServerStart(thrown)
  \/ \E e \in Endpoints, part \in Parts, t \in Times, disk \in DiskOutcomes :
       UploadRequest(e, part, t, disk)
  \/ \E t \in Times, disk \in DiskOutcomes : UploadStoreOk(t, disk)
  \/ UploadStoreFail
  \/ UploadJobAdded
  \/ UploadAddOk
  \/ UploadAddFail

\* the endpoints whose handlers only store the file
StorageEndpoints == {"/api/upload", "/api/upload-pdf"}

\* the operations of object storage: the two storing endpoints and
\* direct calls of uploadFile and readFileFromS3
StorageNext ==
  \/ \E thrown \in BOOLEAN : ServerStart(thrown)
  \/ \E e \in StorageEndpoints, part \in Parts, t \in Times,
        disk \in DiskOutcomes : UploadRequest(e, part, t, disk)
  \/ \E t \in Times, disk \in DiskOutcomes : UploadStoreOk(t, disk)
  \/ UploadStoreFail
  \/ \E outcome \in StorageOutcomes : uploadFile(outcome)
  \/ \E outcome \in StorageOutcomes : readFileFromS3(outcome)

Init == IngestInit /\ ChatInit /\ UploadsDone /\ messages = <<>>

\* the chat window with or without an earlier exchange; the server is
\* idle
ClientInit ==
  /\ IngestInit
  /\ ChatInit
  /\ UploadsDone
  /\ OPENAI_API_KEY
  /\ collExists = TRUE
  /\ index = {}
  /\ messages \in Histories

ClientNext ==
  \/ \E text \in Inputs : ClientSend(text)
  \/ \E r \in ClientResponses : ClientFetch(r)
  \/ \E n \in 1..MaxWire : ClientRead(n)
  \/ ClientReadDone

\* the worker process on its own: the server is idle and has its key
WorkerInit == Init /\ OPENAI_API_KEY

\* the worker against a vector database whose calls may fail
SpecIngest == WorkerInit /\ [][IngestNext]_vars

\* a request of clearQdrantCollection settles: the awaited fetch resolves
\* with an answer or rejects
ClearStep(j) ==
  \/ ScrollOk(j)
  \/ ScrollNotFound(j)
  \/ DeleteOk(j)
  \/ \E r \in Responses : ScrollError(j, r)
  \/ \E r \in Responses : DeleteError(j, r)
  \/ ClearNetworkError(j)

\* the runs of the worker up to the end of their clear, against a vector
\* database that answers a request, fails it or cannot be reached
ClearNext ==
  \E j \in Jobs :
    \/ Start(j)
    \/ \E n \in PageCounts : LoadOk(j, n)
    \/ ClearStep(j)

SpecClear == WorkerInit /\ [][ClearNext]_vars

\* every request of a clear is answered in the end
FairSpecClear == SpecClear /\ \A j \in Jobs : WF_vars(ClearStep(j))

\* the worker against a vector database that answers every call
SpecReliable == WorkerInit /\ [][ReliableNext]_vars

\* the worker when a run can fail after its clear
SpecEmbedFaults == WorkerInit /\ [][EmbedFaultNext]_vars

\* the chat endpoint, one request after the other
SpecChat == Init /\ [][ChatNext]_vars

\* every upstream call of a chat request eventually returns or fails
FairSpecChat == SpecChat /\ WF_vars(ChatStep)

\* the chat endpoint with several requests in flight, on a collection
\* that holds one record
ChatsInit == Init /\ OPENAI_API_KEY /\ Cardinality(index) = 1
SpecChats == ChatsInit /\ [][ChatsNext]_vars

\* the upload endpoints, one request after the other; the worker is idle
SpecUpload == UploadInit /\ [][UploadNext]_vars

\* object storage with and without its configuration
SpecStorage == UploadInit /\ [][StorageNext]_vars

\* one send of the chat window
SpecClient == ClientInit /\ [][ClientNext]_vars

\* the two processes are loaded, in either order
SpecRedis == RedisInit /\ [][RedisNext]_vars

Next == IngestNext \/ ChatNext
Spec == Init /\ [][Next]_vars

----------------------------------------------------------------------------
(***************************************************************************)
(* Claims about the ingestion worker.                                      *)
(***************************************************************************)

\* C1: in every reachable state, also while several ingestion jobs are
\* processed concurrently, the points of the collection come from at most
\* one ingested document.
C1_AtMostOneDocument == Cardinality(DocsOf(index)) <= 1

\* C2: once an ingestion run has completed successfully, every result a
\* search can return holds only points of the document of the run that
\* completed last.
C2_SearchOnlyLatestDocument ==
  lastDone # 0 =>
    \A S \in SearchResults(index) : \A p \in S : p.doc = lastDone

\* C3: within one run the steps are ordered: the clear is not started before
\* the load has finished, the processor is past the clear only when
\* clearQdrantCollection has returned, and a run has points in the
\* collection only when its own clear has returned.
C3_ClearBeforeInsert ==
  \A j \in Jobs :
    /\ pc[j] \in {"waiting", "loading"} => clr[j].st = "idle"
    /\ pc[j] \in {"connecting", "embedding", "inserting", "done"}
         => clr[j].st = "returned"
    /\ PointsOf(index, j) # {} => clr[j].st = "returned" /\ pc[j] = "done"

C3_Witness ==
  \E j \in Jobs :
    /\ pc[j] = "done"
    /\ PointsOf(index, j) # {}
    /\ clr[j].st = "returned"
    /\ deleteCalls[j] = 1

\* a run that had no other run in flight, seen before any later run starts
AloneAndLast(j) ==
  /\ pc[j] = "done"
  /\ ~overlap[j]
  /\ \A k \in Jobs : k > j => pc[k] = "waiting"

\* C4: after a run that succeeded with no other run in flight, the
\* collection holds exactly one point per loaded page of the new document
\* and none of the points it held before.
C4_SingleRunReplaces ==
  \A j \in Jobs :
    AloneAndLast(j) =>
      /\ index = NewPoints(j)
      /\ Cardinality(index) = docs[j]

(***************************************************************************)
(* Claims about the chat endpoint.                                         *)
(***************************************************************************)
Terminal(ev) == ev.type \in {"done", "error"}
LastEvent(r) == r.events[Len(r.events)]

\* one metadata event, content events, one terminal event, in that order
WellFormedStream(evs) ==
  /\ Len(evs) >= 2
  /\ evs[1].type = "metadata"
  /\ Terminal(evs[Len(evs)])
  /\ \A i \in 2..(Len(evs) - 1) : evs[i].type = "content"

\* C5: a response opened as an event stream starts with one metadata
\* event, goes on with content events only, and when the handler has
\* returned it ends with exactly one terminal event (done or error); the
\* metadata event is written before the model call is started.
C5_StreamShape ==
  res.kind = "stream" =>
    /\ Len(res.events) >= 1
    /\ res.events[1].type = "metadata"
    /\ \A i \in 2..Len(res.events) :
         /\ res.events[i].type \in {"content", "done", "error"}
         /\ Terminal(res.events[i]) => i = Len(res.events)
    /\ cpc = "finished" => WellFormedStream(res.events)
    /\ llm.state # "none" => llm.written = 1

C5_Witness ==
  /\ cpc = "finished"
  /\ res.kind = "stream"
  /\ Len(res.events) = 2 + MaxFragments
  /\ LastEvent(res).type = "done"

\* C6: when the similarity search fails the request is not failed: the
\* stream is opened, its metadata event says 'failed' and carries no
\* documents, and the terminal event is the one the model call decides.
C6_RetrievalFailureDegrades ==
  qdrantStatus = "failed" =>
    /\ res.kind = "stream"
    /\ res.events[1] = MetadataEvent({}, "failed")
    /\ cpc = "finished" =>
         /\ llm.state \in {"ok", "failed"}
         /\ llm.state = "ok" => LastEvent(res) = DoneEvent
         /\ llm.state = "failed" => LastEvent(res) = ClassifyOpenAIError(llm.err)

C6_Witness ==
  /\ qdrantStatus = "failed"
  /\ cpc = "finished"
  /\ llm.state = "ok"
  /\ res.ended

\* C7: once the terminal event of a stream is written the response is
\* ended, and the handler writes nothing to an ended response.
C7_NoWriteAfterTerminal ==
  [][/\ res'.lateWrites = 0
     /\ (res'.events # <<>> /\ Terminal(LastEvent(res'))) => res'.ended
     /\ (res.ended /\ cpc' # "idle") => res' = res]_vars

C7_Witness ==
  /\ res.kind = "stream"
  /\ res.ended
  /\ LastEvent(res).type = "error"
  /\ cpc = "finished"

\* a single JSON error response, or a stream closed after its terminal event
WellFormedResponse(r) ==
  \/ /\ r.kind = "json"
     /\ r.status \in {400, 500}
     /\ r.events = <<>>
     /\ r.ended
  \/ /\ r.kind = "stream"
     /\ WellFormedStream(r.events)
     /\ r.ended

\* C8: every chat request eventually ends with a well-formed terminal
\* response, and no exception escapes the handler (every upstream call
\* eventually returns or fails).
C8_EveryRequestEnds ==
  /\ [](~res.threw)
  /\ (cpc # "idle") ~> (cpc = "finished" /\ WellFormedResponse(res))

C8_Witness ==
  /\ cpc = "finished"
  /\ llm.state = "failed"
  /\ fragments # <<>>
  /\ \E i \in 1..Len(res.events) : res.events[i].type = "content"
  /\ WellFormedResponse(res)

BadQueries == {"missing", "empty", "array", "object"}

\* C9: a request whose message is missing, empty or not a single string is
\* answered 400 before any stream is opened, without a similarity search
\* and without a model call.
C9_BadMessageRejected ==
  userQuery \in BadQueries =>
    /\ cpc = "finished"
    /\ res.kind = "json" /\ res.status = 400
    /\ res.events = <<>>
    /\ searchCalls = 0
    /\ llm.state = "none"

C9_Witness ==
  /\ userQuery = "array"
  /\ OPENAI_API_KEY
  /\ res.status = 400

\* C10: a valid message while the API key is not configured is answered
\* 500 without a stream, a similarity search or a model call; the message
\* is checked before the key.
C10_MissingKeyRejected ==
  ~OPENAI_API_KEY =>
    /\ userQuery = "text" =>
         /\ cpc = "finished"
         /\ res.kind = "json" /\ res.status = 500
         /\ res.events = <<>>
         /\ searchCalls = 0
         /\ llm.state = "none"
    /\ userQuery \in BadQueries => res.status = 400

C10_Witness ==
  /\ userQuery = "text"
  /\ ~OPENAI_API_KEY
  /\ res.status = 500

----------------------------------------------------------------------------
(***************************************************************************)
(* Claims about clearQdrantCollection.                                     *)
(***************************************************************************)

\* C11: a call of clearQdrantCollection whose scroll is answered by an
\* empty collection, or by a collection that does not exist, returns
\* without an error and without a delete request, and leaves the index
\* empty; so a second call in a row leaves what the first one left.
C11_EmptyClearDeletesNothing ==
  [][\A j \in Jobs :
       (/\ clr[j].st = "scrolling"
        /\ clr[j].allIds = {}
        /\ (index = {} \/ ~collExists)
        /\ clr'[j] # clr[j])
       => (/\ clr'[j].st = "returned"
           /\ deleteCalls'[j] = 0
           /\ index' = {})]_vars

\* two calls in a row: the second one ran on what the first one left
C11_Witness ==
  /\ pc[1] = "connecting"
  /\ pc[2] = "connecting"
  /\ clr[1].st = "returned"
  /\ clr[2].st = "returned"
  /\ deleteCalls[2] = 0
  /\ index = {}

\* C12: in a run that no other job overlaps, the one delete request of
\* clearQdrantCollection is sent after the cursor is exhausted and names
\* exactly the ids of the points the collection holds; no delete request
\* is sent while a scroll is outstanding.
C12_OneDeleteOfAllIds ==
  \A j \in Jobs :
    /\ deleteCalls[j] <= 1
    /\ clr[j].st = "scrolling" => deleteCalls[j] = 0
    /\ clr[j].st = "deleting" =>
         /\ deleteCalls[j] = 1
         /\ clr[j].offset = NullOffset
         /\ ~overlap[j] => clr[j].allIds = PointIds(index)

\* the delete request of a collection that took more than one scroll page
C12_Witness ==
  \E j \in Jobs :
    /\ clr[j].st = "deleting"
    /\ ~overlap[j]
    /\ Cardinality(clr[j].allIds) > ScrollLimit
    /\ clr[j].allIds = PointIds(index)

----------------------------------------------------------------------------
(***************************************************************************)
(* Claims about the upload endpoints.                                      *)
(***************************************************************************)
InQueue(j) == \E i \in DOMAIN queue : queue[i] = j

\* the request in flight carries a file whose type is not application/pdf
NonPdfUpload ==
  /\ up.pc # "idle"
  /\ up.err = "none"
  /\ up.file # "none"
  /\ ToLowerCase(up.file) # "application/pdf"

\* C13: on every PDF upload endpoint, an upload whose file is not of
\* type application/pdf is answered 400, and no job is enqueued for it.
C13_NonPdfRejected ==
  (NonPdfUpload /\ up.endpoint \in PdfEndpoints)
  => (/\ up.pc = "finished"
      /\ ures.status = 400
      /\ up.adds = 0
      /\ ~InQueue(up.id))

\* C14: every PDF upload answered with success, the one the upload form
\* of the web client issues included, has written a temp copy of the
\* uploaded bytes and has called queue.add exactly once, with the path
\* of that temp copy.
C14_SuccessMeansEnqueued ==
  (/\ up.pc = "finished"
   /\ up.endpoint \in PdfEndpoints \cup {ClientEndpoint}
   /\ ures.status = 200)
  => (/\ up.adds = 1
      /\ up.submitted = up.tempPath
      /\ [path |-> up.tempPath, bytes |-> up.id] \in tempFiles)

\* C15: when queue.add rejects, the error is only logged and the upload
\* gets the success response it gets when queue.add resolves; and the
\* response is sent while the job has not been processed.
C15_EnqueueFireAndForget ==
  /\ (up.pc = "finished" /\ up.adds = 1)
       => (/\ ures.status = 200
           /\ ures.error = ""
           /\ ures.message = "uploaded"
           /\ ures.url = up.url)
  /\ (up.pc = "added" /\ pc[up.id] = "waiting") => ENABLED UploadAddOk

\* queue.add has rejected, the warning is logged, the upload succeeded
C15_Witness ==
  /\ up.pc = "finished"
  /\ enqueuer = "real"
  /\ up.adds = 1
  /\ up.warned
  /\ ures.status = 200

\* C16: if the broker is unavailable when the server starts, the queue
\* of the server is the mock queue, nothing is enqueued, and every PDF
\* upload that reaches queue.add is answered with success.
C16_BrokerDownNoOp ==
  (~brokerUp /\ enqueuer # "unset")
  => (/\ enqueuer = "mock"
      /\ queue = <<>>
      /\ (up.pc = "finished" /\ up.adds = 1) => ures.status = 200)

\* a PDF upload has been rejected for a reason other than object storage
OtherwiseRejected ==
  \/ up.err # "none"
  \/ up.file = "none"
  \/ ToLowerCase(up.file) # "application/pdf"
  \/ ures.error = "Failed to upload file"

\* C17: when object storage is not configured, a PDF upload is accepted
\* on every PDF upload endpoint: success, without a url.
C17_NoStorageStillAccepted ==
  (/\ ~isS3Configured
   /\ up.pc = "finished"
   /\ up.endpoint \in PdfEndpoints
   /\ ~OtherwiseRejected)
  => (ures.status = 200 /\ ~ures.url)

\* C18: an upload request without a file is answered 400 at once:
\* nothing is stored in object storage, no temp file is written and
\* queue.add is not called.
C18_NoFileRejectedFirst ==
  (up.pc # "idle" /\ up.err = "none" /\ up.file = "none")
  => (/\ up.pc = "finished"
      /\ ures.status = 400
      /\ up.id \notin s3Objects
      /\ \A f \in tempFiles : f.bytes # up.id
      /\ up.adds = 0
      /\ ~InQueue(up.id))

\* a request without a file at the endpoint that writes temp copies,
\* on a server that is able to store and to enqueue
C18_Witness ==
  /\ up.pc = "finished"
  /\ up.err = "none"
  /\ up.file = "none"
  /\ up.endpoint = "/api/upload/pdf"
  /\ isS3Configured
  /\ enqueuer = "real"
  /\ brokerUp

----------------------------------------------------------------------------
(***************************************************************************)
(* Claims about the failure of an ingestion job.                           *)
(***************************************************************************)
\* the order of the positions of the processor function
Rank(p) ==
  CASE p = "waiting" -> 0
    [] p = "loading" -> 1
    [] p = "clearing" -> 2
    [] p = "connecting" -> 3
    [] p = "embedding" -> 4
    [] p = "inserting" -> 5
    [] OTHER -> 6

\* C19: a job whose step raised is failed and stays failed: it executes
\* no later step; no job ever goes back to an earlier step; a clear that
\* raised fails its job; and no step of the worker adds a job to the
\* queue, on failure or on success.
C19_FailedIsFinal ==
  [][\A j \in Jobs :
       /\ pc[j] = "failed" =>
            /\ pc'[j] = "failed"
            /\ clr'[j] = clr[j]
            /\ deleteCalls'[j] = deleteCalls[j]
            /\ PointsOf(index', j) = PointsOf(index, j)
       /\ Rank(pc'[j]) >= Rank(pc[j])
       /\ (clr[j].st # "raised" /\ clr'[j].st = "raised") => pc'[j] = "failed"
       /\ Len(queue') <= Len(queue)]_vars

\* one job failed in its clear, the other one after its clear; no job is
\* left in the queue
C19_Witness ==
  /\ queue = <<>>
  /\ \E j \in Jobs : pc[j] = "failed" /\ clr[j].st = "raised"
  /\ \E j \in Jobs : pc[j] = "failed" /\ clr[j].st = "returned"

\* C20: the steps of a job up to a failed load leave the index as it
\* is: the job has sent no scroll and no delete request and has
\* inserted nothing.
C20_LoadFailureLeavesIndex ==
  [][\A j \in Jobs :
       /\ (pc[j] = "waiting" /\ pc'[j] # "waiting") => index' = index
       /\ (pc[j] = "loading" /\ pc'[j] = "failed") =>
            /\ index' = index
            /\ clr[j] = ClrIdle
            /\ clr'[j] = ClrIdle
            /\ deleteCalls'[j] = 0
            /\ PointsOf(index', j) = {}]_vars

\* a job that was started while another one was running has failed in
\* its load, and the collection still holds points
C20_Witness ==
  \E j \in Jobs :
    /\ pc[j] = "failed"
    /\ overlap[j]
    /\ clr[j] = ClrIdle
    /\ deleteCalls[j] = 0
    /\ index # {}

----------------------------------------------------------------------------
(***************************************************************************)
(* Claims about the errors of the model call.                              *)
(***************************************************************************)
ErrorClasses ==
  {"invalid_key", "rate_limit", "quota", "model", "network", "generic"}

\* what a caller tells two error events apart by
StatusAndError(ev) == <<ev.status, ev.error>>

ErrorEvents(evs) == {i \in DOMAIN evs : evs[i].type = "error"}

\* C21: a failed model call has written exactly one error event; the
\* event has a status and a hint and is the event of the one class the
\* error belongs to; an error of another class is never reported with the
\* same status and error text.
C21_OneClassifiedErrorEvent ==
  llm.state = "failed" =>
    /\ Cardinality(ErrorEvents(res.events)) = 1
    /\ LastEvent(res).type = "error"
    /\ LastEvent(res).status \in 100..599
    /\ LastEvent(res).hint
    /\ ErrorClass(llm.err) \in ErrorClasses
    /\ LastEvent(res) = ClassifyOpenAIError(llm.err)
    /\ \A other \in ChatErrors :
         ErrorClass(other) # ErrorClass(llm.err)
         => StatusAndError(ClassifyOpenAIError(other))
              # StatusAndError(LastEvent(res))

\* a model call failed with an error without a status whose message
\* says the model was not found
C21_Witness ==
  /\ llm.state = "failed"
  /\ llm.err.status = 0
  /\ llm.err.message = {"not found"}
  /\ LastEvent(res).status = 404

----------------------------------------------------------------------------
(***************************************************************************)
(* Claims about the chat handler and what it shares.                       *)
(***************************************************************************)
ContentCount(evs) == Cardinality({i \in DOMAIN evs : evs[i].type = "content"})

\* C22: once the client has closed its connection during the stream, the
\* handler consumes no further fragment of the model stream and writes
\* no further content event.
C22_StopsAfterClientClose ==
  [][(clientClosed /\ cpc = "streaming")
     => (/\ fragments' = fragments
         /\ ContentCount(res'.events) = ContentCount(res.events))]_vars

\* the content events of a sequence of fragments
RECURSIVE ContentEventsOf(_)
ContentEventsOf(frags) ==
  IF frags = <<>> THEN <<>>
  ELSE (IF Head(frags) # "" THEN <<ContentEvent(Head(frags))>> ELSE <<>>)
       \o ContentEventsOf(Tail(frags))

\* the events of a finished stream, from what this request retrieved and
\* what its model call produced
ExpectedEvents ==
  <<MetadataEvent(result, qdrantStatus)>>
  \o ContentEventsOf(fragments)
  \o <<IF llm.state = "ok" THEN DoneEvent ELSE ClassifyOpenAIError(llm.err)>>

\* C23: the model is sent one system instruction and the current
\* question, nothing else; between two requests the handler holds no
\* state; and the events of a finished stream are determined by what
\* this request retrieved and what its model call produced.
C23_Stateless ==
  /\ llm.state # "none" =>
       llm.messages =
         <<[role |-> "system", content |-> SystemPrompt(result)],
           [role |-> "user", content |-> [kind |-> userQuery, context |-> {}]]>>
  /\ cpc = "idle" =>
       /\ userQuery = "none"
       /\ result = {}
       /\ qdrantStatus = "not_attempted"
       /\ SYSTEM_PROMPT.kind = "unset"
       /\ res = NoResponse
       /\ llm = NoCall
       /\ fragments = <<>>
  /\ (cpc = "finished" /\ res.kind = "stream") => res.events = ExpectedEvents

\* the stream of a request that was handled after an earlier one
C23_Witness ==
  /\ earlier
  /\ cpc = "finished"
  /\ res.kind = "stream"
  /\ result # {}
  /\ Len(fragments) = MaxFragments

\* C24: no step of a chat request, with other chat requests in flight,
\* changes the points of the collection or the queue.
C24_ChatReadOnly == [][index' = index /\ queue' = queue]_vars

\* two requests stream at the same time; the observed one has retrieved
C24_Witness ==
  /\ cpc = "streaming"
  /\ \A o \in OtherChats : others[o] = "streaming"
  /\ result # {}
  /\ index # {}
  /\ queue # <<>>

\* C25: the system instruction embeds documents exactly when at least
\* one was retrieved, the documents it embeds are the ones the metadata
\* event carries, and it is the generic instruction otherwise; it is the
\* instruction sent to the model.
C25_PromptMatchesMetadata ==
  res.kind = "stream" =>
    /\ res.events[1].docs = result
    /\ SYSTEM_PROMPT.kind = "context" <=> Cardinality(result) >= 1
    /\ SYSTEM_PROMPT.kind = "context" => SYSTEM_PROMPT.context = res.events[1].docs
    /\ Cardinality(result) = 0 => SYSTEM_PROMPT = [kind |-> "generic", context |-> {}]
    /\ llm.messages[1] = [role |-> "system", content |-> SYSTEM_PROMPT]

\* one document was retrieved
C25_Witness ==
  /\ res.kind = "stream"
  /\ qdrantStatus = "success"
  /\ Cardinality(result) = 1
  /\ SYSTEM_PROMPT.kind = "context"

----------------------------------------------------------------------------
(***************************************************************************)
(* Claims about configuration.                                             *)
(***************************************************************************)
\* the connection a value of REDIS_URL denotes
DenotedConnection(u) ==
  IF u.kind \in {"unset", "empty"} \/ InvalidURL(u)
  THEN [host |-> "localhost", port |-> 6379, password |-> Undefined,
        username |-> Undefined]
  ELSE [host |-> u.host,
        port |-> IF u.port = <<>> THEN 6379 ELSE Number(u.port),
        password |-> IF u.password = <<>> THEN Undefined
                     ELSE [defined |-> TRUE, text |-> u.password],
        username |-> IF u.username = <<>> THEN Undefined
                     ELSE [defined |-> TRUE, text |-> u.username]]

\* server and worker, once both are loaded, agree on queue name and
\* connection
SameQueue ==
  (serverQueue # NoQueue /\ workerQueue # NoQueue) => serverQueue = workerQueue

\* C26: the connection of the server and of the worker is the host, port
\* (6379 when the URL has none), username and password of REDIS_URL when
\* it parses and localhost:6379 when it is unset or unparsable; server
\* and worker derive the same parameters and use the same queue name.
C26_ConnectionFromRedisUrl ==
  /\ serverQueue # NoQueue =>
       serverQueue.connection = DenotedConnection(REDIS_URL)
  /\ workerQueue # NoQueue =>
       workerQueue.connection = DenotedConnection(REDIS_URL)
  /\ SameQueue

\* C27: without a bucket name no step creates the storage client or
\* makes a storage call; uploadFile and readFileFromS3 fail with the
\* configuration error, /api/upload answers 500 with it, and the server
\* takes the next request.
C27_NoBucketFailsFast ==
  /\ [][~AWS_S3_BUCKET =>
          /\ s3Instance' = s3Instance
          /\ up'.pc # "storing"
          /\ ~lib'.called
          /\ lib' # lib => lib'.error = BucketError
          /\ (/\ up' # up
              /\ up'.endpoint = "/api/upload"
              /\ up'.err = "none"
              /\ up'.file # "none")
             => /\ up'.pc = "finished"
                /\ ures' = UploadResponse(500, BucketError, "", FALSE)]_vars
  /\ []((~AWS_S3_BUCKET /\ up.pc = "finished" /\ uploads < MaxJobs)
         => ENABLED (\E e \in StorageEndpoints, part \in Parts, t \in Times,
                        disk \in DiskOutcomes :
                        UploadRequest(e, part, t, disk)))

\* the three operations have failed with the configuration error
C27_Witness ==
  /\ ~AWS_S3_BUCKET
  /\ ~s3Instance
  /\ lib.op = "readFileFromS3"
  /\ lib.error = BucketError
  /\ up.endpoint = "/api/upload"
  /\ ures = UploadResponse(500, BucketError, "", FALSE)
  /\ uploads = MaxJobs

----------------------------------------------------------------------------
(***************************************************************************)
(* Claims about replacement, clearing and quota errors.                    *)
(***************************************************************************)
AllDone == \A j \in Jobs : pc[j] = "done"

\* C28: when every job of the uploads has completed successfully, the
\* collection holds exactly the points of the document uploaded last.
C28_LastUploadOnly == AllDone => index = NewPoints(MaxJobs)

\* C29: a clear returns only when the collection does not exist or the
\* records it enumerated are deleted; when it raises, the job fails and
\* has inserted nothing.
C29_ClearReturnsOnlyWhenCleared ==
  [][\A j \in Jobs :
       /\ (clr[j].st = "scrolling" /\ clr'[j].st = "returned")
            => \/ ~collExists
               \/ /\ clr[j].allIds = {}
                  /\ ScrollFrom(index, clr[j].offset) = {}
       /\ (clr[j].st = "deleting" /\ clr'[j].st = "returned")
            => PointIds(index') \cap clr[j].allIds = {}
       /\ clr'[j].st = "raised"
            => pc'[j] = "failed" /\ PointsOf(index', j) = {}]_vars

\* C30: a failed model call whose message mentions quota is reported
\* with the quota event (status 403), whatever its status and whatever
\* else the message contains.
C30_QuotaAlwaysReportedAsQuota ==
  (llm.state = "failed" /\ Includes(ErrorMessage(llm.err), "quota"))
    => LastEvent(res) = QuotaEvent

----------------------------------------------------------------------------
(***************************************************************************)
(* Claims about the stream, failed runs, settings and the chat client.     *)
(***************************************************************************)
\* the characters of a fragment: a fragment is empty or one character
Chars(c) == IF c = "" THEN <<>> ELSE <<c>>

\* the concatenation of a sequence of fragments
RECURSIVE Concat(_)
Concat(frags) ==
  IF frags = <<>> THEN <<>> ELSE Chars(Head(frags)) \o Concat(Tail(frags))

\* the content events of a stream, in the order written
ContentsOf(evs) == SelectSeq(evs, LAMBDA ev : ev.type = "content")

\* the content fields of a sequence of content events
ContentFields(evs) == [i \in DOMAIN evs |-> evs[i].content]

\* C31: at every point of a stream the content events written are, in
\* order, one per non-empty fragment consumed and none for an empty
\* one; their content fields concatenate to the concatenation of the
\* fragments.
C31_ContentEventsAreFragments ==
  res.kind = "stream" =>
    /\ ContentsOf(res.events) = ContentEventsOf(fragments)
    /\ \A i \in DOMAIN ContentsOf(res.events) :
         ContentsOf(res.events)[i].content # ""
    /\ Concat(ContentFields(ContentsOf(res.events))) = Concat(fragments)

\* a stream that ended after an empty and a non-empty fragment
C31_Witness ==
  /\ cpc = "finished"
  /\ res.kind = "stream"
  /\ Len(fragments) = MaxFragments
  /\ fragments[1] = ""
  /\ fragments[MaxFragments] # ""
  /\ Len(ContentsOf(res.events)) = MaxFragments - 1

\* C32: a response that has been opened as an event stream stays one:
\* no step calls res.status(...).json on it, and a model call that fails
\* after that point ends the stream with an error event.
C32_NoJsonAfterStreamOpened ==
  /\ [][(res.kind = "stream" /\ cpc' # "idle")
          => /\ res'.kind = "stream"
             /\ res'.status = 200
             /\ res'.error = ""
             /\ ~res'.threw]_vars
  /\ [](llm.state = "failed"
          => /\ res.kind = "stream"
             /\ ~res.threw
             /\ LastEvent(res).type = "error")

\* the model call failed right after the metadata event
C32_Witness ==
  /\ cpc = "finished"
  /\ res.kind = "stream"
  /\ llm.state = "failed"
  /\ fragments = <<>>
  /\ Len(res.events) = 2
  /\ res.events[1].type = "metadata"

\* a run that failed after its clear returned, with no other run in
\* flight, seen before any later run starts
FailedAfterClear(j) ==
  /\ pc[j] = "failed"
  /\ clr[j].st = "returned"
  /\ ~overlap[j]
  /\ \A k \in Jobs : k > j => pc[k] = "waiting"

\* C33: after a run that failed in embedding or insert once its clear
\* had succeeded, with no other run in flight, the collection holds no
\* point: neither the earlier ones nor any of the new document.
C33_FailedRunLeavesEmptyIndex ==
  \A j \in Jobs : FailedAfterClear(j) => index = {}

\* the run deleted the points of an earlier document and then failed
C33_Witness ==
  \E j \in Jobs :
    /\ FailedAfterClear(j)
    /\ deleteCalls[j] = 1
    /\ docs[j] = 0
    /\ index = {}

\* C34: for every value of QDRANT_URL the worker clears and fills the
\* collection the chat endpoint searches: same endpoint, same name.
C34_SameVectorStore ==
  workerStore # NoStore =>
    /\ workerStore.clear = ChatStore
    /\ workerStore.insert = ChatStore

\* C35: no upload writes its temp copy over the temp copy of another
\* upload, and the bytes of every queued job are in the temp directory
\* (upload n carries the bytes n and enqueues job n).
C35_TempPathsDistinct ==
  /\ [][\A f \in tempFiles : f \in tempFiles']_vars
  /\ [](\A i \in 1..Len(queue) : \E f \in tempFiles : f.bytes = queue[i])

\* the assistant message of the send
Answer == messages[send.assistantMessageIndex + 1]

\* the response of the send has ended after the server wrote done
EndedAfterDone ==
  /\ send.pc = "ended"
  /\ served # <<>>
  /\ served[Len(served)] = DoneEvent

\* C36: however the response body is split into reads, when the stream
\* has ended with done the assistant message holds the concatenation, in
\* order, of the content fields of all content events the server wrote,
\* and the documents of the metadata event.
C36_AnswerIsWhatWasServed ==
  EndedAfterDone =>
    /\ Answer.content = Concat(ContentFields(ContentsOf(served)))
    /\ Answer.hasDocuments
    /\ Answer.documents = served[1].docs

\* C37: a send appends exactly one user message and one empty assistant
\* message, and once the response of the send has ended (stream closed
\* after done or error, or a failed request) that assistant message is
\* no longer empty, also when the stream had no content event.
C37_AnswerLeavesPendingState ==
  /\ [][send.pc = "idle" /\ send'.pc # "idle" =>
          \E text \in Inputs :
            messages' = messages \o
                          <<UserMessage(text), AssistantMessage(<<>>)>>]_vars
  /\ [](send.pc = "ended" => Answer.content # <<>>)

\* C38: clearQdrantCollection terminates.  While it scrolls, every
\* answered scroll call moves the cursor to a larger id of the (finite)
\* collection, so the scroll calls are finitely many; it sends at most
\* one delete request; and in the end every clear that has started has
\* returned or raised (a run clears once).
C38_ClearTerminates ==
  /\ [][\A j \in Jobs :
          clr[j].st = "scrolling" /\ clr'[j].st = "scrolling"
             /\ clr'[j] # clr[j] =>
            /\ clr'[j].offset > clr[j].offset
            /\ clr'[j].offset \in PointIds(index)]_vars
  /\ [](\A j \in Jobs : deleteCalls[j] <= 1)
  /\ <>[](\A j \in Jobs : clr[j].st \in {"idle", "returned", "raised"})

\* a clear whose second scroll call is outstanding, with the ids of the
\* first page collected
C38_Witness ==
  \E j \in Jobs :
    /\ clr[j].st = "scrolling"
    /\ clr[j].offset > ScrollLimit
    /\ Cardinality(clr[j].allIds) = ScrollLimit

====
